---------------------------- MODULE Spec2Model ----------------------------
(***************************************************************************)
(* Model of the email-server ingestion pipeline: the account scheduler     *)
(* (EmailProcessor), the per-account poller (_process_server), the IMAP    *)
(* client map, the per-message ingestion transaction (_process_emails) and *)
(* the shutdown path of the application lifespan; and, each under a        *)
(* specification of its own, the attachment handler, the policy resolver,  *)
(* the text extractor, the IMAP client at the level of its commands, the   *)
(* search endpoint (its row count, and its regex filter and previews), the *)
(* account endpoints over the store, the bodies of a parsed message, the   *)
(* poll of an account against a server that comes and goes, repeated       *)
(* start_processing / stop_processing calls, the connection settings of a  *)
(* cached client, and the synthesized Message-ID.                          *)
(*                                                                         *)
(* Atomicity follows asyncio: a coroutine runs without interruption until  *)
(* it suspends on real I/O.  The only real suspension points of a poller   *)
(* are the IMAP commands of SMTPClient (connect, LIST/SELECT/SEARCH/FETCH);*)
(* _process_emails, _update_server_stats and the last_check update contain *)
(* no suspending await (their awaited coroutines do synchronous work), so  *)
(* everything after the last IMAP response is one step.                    *)
(***************************************************************************)
EXTENDS Integers, Sequences, FiniteSets, TLC

----------------------------------------------------------------------------
(* Bounds of the model *)

\* number of configured accounts (smtp_configs rows)
NumAccounts == 2
\* number of concurrent manual triggers (process_server_now calls in flight)
MaxManual == 1
\* largest value of the clock; every last_check write reads a later time
MaxClock == 2
\* longest mailbox drawn by the ingestion specification
MaxMailbox == 2
\* length of the long mailbox of the batching specification
LongMailbox == 11

Accounts == 1..NumAccounts
MsgIds == {"m1", "m2"}
None == "none"

\* A fetched message as _parse_email returns it, reduced to what ingestion
\* reads: its Message-ID, the Content-Disposition attachment count (hint),
\* and the number of Attachment objects extract_attachments builds for it.
Message == [mid : MsgIds, hint : 0..1, parts : 0..1]

Msg(m, h, p) == [mid |-> m, hint |-> h, parts |-> p]

----------------------------------------------------------------------------
(* State *)

VARIABLES
    mailbox,                 \* IMAP server: [Accounts -> Seq(Message)]
    enabled,                 \* smtp_configs.enabled
    total_emails_processed,  \* smtp_configs.total_emails_processed
    last_check,              \* smtp_configs.last_check (0 = NULL)
    email_logs,              \* committed email_logs rows
    email_attachments,       \* committed email_attachments rows
    now,                     \* datetime.utcnow()
    processing,              \* EmailProcessor.processing
    active_clients,          \* EmailProcessor.active_clients, insertion order
    clears,                  \* number of active_clients.clear() calls so far
    connected,               \* client objects whose _connected is True
    schedPc,                 \* position of the start_processing task
    cycleConfigs,            \* config_copies of the running cycle
    cycleIdx,                \* tasks created so far in the running cycle
    lifePc,                  \* position of the shutdown part of the lifespan
    stopQueue,               \* clients stop_processing has still to visit
    stopSize,                \* size of active_clients when its iteration began
    rPc,                     \* position of each poller run
    rAcct,                   \* account a poller run works for
    rClient,                 \* client object a poller run holds
    rPos,                    \* messages of the mailbox the run has asked for
    rEmails,                 \* all_emails: messages fetched so far
    rOutcome,                \* how the run ended
    rChecked,                \* the run has written last_check
    rAdded,                  \* what the run added to total_emails_processed
    loggedOut,               \* client objects whose logout completed
    stopSnapshot,            \* clients that were in the map when stop began
    errLog,                  \* Message-IDs whose transaction was rolled back
    lastCycleErr,            \* the last finished cycle raised
    polls,                   \* completed polls (ingestion specification)
    firstLogs,               \* email_logs after the first poll
    firstAtts,               \* email_attachments after the first poll
    rawbox,                  \* raw RFC 822 messages a fetch returned, as walked
    settings,                \* global settings (src/config.py)
    overrides,               \* the account's *_override columns, or None
    policy,                  \* a StorageConfig
    part,                    \* a MIME part given to _process_attachment
    content_type,            \* a MIME type given to the resolver / extractor
    data,                    \* length of the bytes given to the extractor
    ret,                     \* value the called function returned
    decoded,                 \* decoders the text extractor invoked
    attachment,              \* EmailAttachment object _process_attachment built
    server,                  \* the IMAP server: its answer to every command
    imapPc,                  \* position of a fetch_new_emails call
    isConnected,             \* SMTPClient._connected
    commands,                \* IMAP commands the call has issued
    folderIdx,               \* folder the loop over folders is at
    uidIdx,                  \* message the loop over message_ids is at
    folder_emails,           \* folder_emails of the folder
    all_emails,              \* all_emails of the call
    seen,                    \* messages flagged \Seen on the server
    limit,                   \* limit parameter of search_emails
    skip,                    \* skip parameter of search_emails
    matching,                \* number of rows the search's filters match
    backend,                 \* database the engine is bound to
    query,                   \* query parameter of search_emails
    field,                   \* field parameter of search_emails
    search_attachments,      \* search_attachments parameter of search_emails
    stored,                  \* the email_logs row a search runs over
    smtp_configs,            \* smtp_configs rows, when accounts come and go
    reachable,               \* the IMAP server accepts connections
    loopPc,                  \* position of every start_processing call
    creds                    \* connection settings: of the row, of the client

storeVars == <<enabled, total_emails_processed, last_check, email_logs,
               email_attachments, now>>
clientVars == <<active_clients, clears, connected, loggedOut>>
schedVars == <<processing, schedPc, cycleConfigs, cycleIdx, lastCycleErr>>
lifeVars == <<lifePc, stopQueue, stopSize, stopSnapshot>>
runVars == <<rPc, rAcct, rClient, rPos, rEmails, rOutcome, rChecked, rAdded>>
attachVars == <<rawbox>>
policyVars == <<settings, overrides, policy, part, content_type, data, ret,
                decoded, attachment>>
imapVars == <<server, imapPc, isConnected, commands, folderIdx, uidIdx,
              folder_emails, all_emails, seen>>
searchVars == <<limit, skip, matching, backend>>
queryVars == <<query, field, search_attachments, stored>>
extVars == <<queryVars, smtp_configs, reachable, loopPc, creds>>
auxVars == <<attachVars, policyVars, imapVars, searchVars, extVars>>
ingestVars == <<polls, firstLogs, firstAtts, auxVars>>
vars == <<mailbox, storeVars, clientVars, schedVars, lifeVars, runVars,
          errLog, ingestVars>>

\* Poller runs: one task slot per account for the scheduler's tasks, and
\* MaxManual slots for process_server_now calls.
SchedRuns == {<<"sched", a>> : a \in Accounts}
ManualRuns == {<<"manual", i>> : i \in 1..MaxManual}
Runs == SchedRuns \cup ManualRuns

----------------------------------------------------------------------------
(* The ingestion transaction of one message: _process_emails, loop body *)

Max(S) == CHOOSE x \in S : \A y \in S : y <= x

\* primary key of the next inserted row
NextId(rows) == IF rows = {} THEN 1 ELSE Max({r.id : r \in rows}) + 1

\* variant: no unique constraint on message_id, flush never raises
NoUniqueConstraint(logs, m) == FALSE

\* unique constraint on email_logs.message_id, raised by db.flush()
IntegrityError(logs, m) == \E r \in logs : r.mid = m.mid

\* extract_attachments: the Attachment objects built for the message
ExtractAttachments(m, email_log_id, firstId) ==
    {[id |-> firstId + i - 1, email_log_id |-> email_log_id] : i \in 1..m.parts}

\* variant: the flushed row survives the rollback (a commit in place of flush)
RollbackKeepsFlushed(logs, atts, flushed) ==
    [logs |-> logs \cup {flushed}, atts |-> atts]

\* get_db_session on an exception: rollback; the flushed row and everything
\* else the session holds is discarded
Rollback(logs, atts, flushed) == [logs |-> logs, atts |-> atts]

\* get_db_session on normal exit: commit the flushed row and the added rows
Commit(logs, atts, row, newAtts) ==
    [logs |-> logs \cup {row}, atts |-> atts \cup newAtts]

\* attachments are extracted when the hint is positive (raw_email is always
\* present in a parsed message)
WantsAttachments(m) == m.hint > 0

\* One iteration of the loop of _process_emails.  st.bound tells whether the
\* local account_email has been assigned by an earlier iteration of this
\* call: extract_attachments is passed it before this iteration assigns it.
ProcessEmail(st, m, acct) ==
    LET id == NextId(st.logs)
        row == [id |-> id, mid |-> m.mid, acct |-> acct,
                attachment_count |-> m.hint]
        failed == Rollback(st.logs, st.atts, row)
    IN  IF IntegrityError(st.logs, m)
        THEN [logs |-> failed.logs, atts |-> failed.atts,
              bound |-> st.bound, errs |-> st.errs \cup {m.mid}]
        ELSE IF WantsAttachments(m) /\ ~st.bound
        THEN \* UnboundLocalError: account_email
             [logs |-> failed.logs, atts |-> failed.atts,
              bound |-> st.bound, errs |-> st.errs \cup {m.mid}]
        ELSE LET newAtts == IF WantsAttachments(m)
                            THEN ExtractAttachments(m, id, NextId(st.atts))
                            ELSE {}
                 final == IF WantsAttachments(m)
                          THEN [row EXCEPT !.attachment_count = Cardinality(newAtts)]
                          ELSE row
                 done == Commit(st.logs, st.atts, final, newAtts)
             IN  [logs |-> done.logs, atts |-> done.atts,
                  bound |-> TRUE, errs |-> st.errs]

\* _process_emails: the loop over the fetched list; account_email starts
\* unassigned in every call
RECURSIVE ProcessFrom(_, _, _, _)
ProcessFrom(st, emails, i, acct) ==
    IF i > Len(emails) THEN st
    ELSE ProcessFrom(ProcessEmail(st, emails[i], acct), emails, i + 1, acct)

ProcessEmails(logs, atts, errs, emails, acct) ==
    ProcessFrom([logs |-> logs, atts |-> atts, bound |-> FALSE, errs |-> errs],
                emails, 1, acct)

\* variant: the counter is assigned the batch count instead of increased
SetServerStats(count, email_count) == email_count

\* _update_server_stats: total_emails_processed += email_count
UpdateServerStats(count, email_count) == count + email_count

\* variant: the count of rows the batch inserted
InsertedCount(emails, logsBefore, logsAfter) ==
    Cardinality(logsAfter) - Cardinality(logsBefore)

\* the count _process_server passes to _update_server_stats
EmailCount(emails, logsBefore, logsAfter) == Len(emails)

----------------------------------------------------------------------------
(* Helpers of the state machine *)

\* client_key = f"{config_id}_{config_host}"; the host of an account is not
\* changed by any action of this model, the key is the account id
ClientKey(a) == a

\* A client object is named by its key and by the number of clear() calls
\* made before it was created: a key is re-created only after a clear().
KeyOf(c) == c[1]

ClientOf(clients, a) ==
    LET i == CHOOSE i \in 1..Len(clients) : KeyOf(clients[i]) = ClientKey(a)
    IN  clients[i]

HasClient(clients, a) == \E i \in 1..Len(clients) : KeyOf(clients[i]) = ClientKey(a)

ClientSet(clients) == {clients[i] : i \in 1..Len(clients)}

\* db.query(SMTPConfig).filter(SMTPConfig.enabled == True).all(), in id order
RECURSIVE EnabledFrom(_, _)
EnabledFrom(en, a) ==
    IF a > NumAccounts THEN <<>>
    ELSE (IF en[a] THEN <<a>> ELSE <<>>) \o EnabledFrom(en, a + 1)

EnabledConfigs(en) == EnabledFrom(en, 1)

\* a poller run that has started and has not ended
Running(r) == rPc[r] \in {"start", "connecting", "fetching"}

\* a poller run that is waiting for the answer to an IMAP command
Fetching(r) == rPc[r] = "fetching"

----------------------------------------------------------------------------
(* Initial state: the state after EmailProcessor() and before the lifespan  *)
(* starts the scheduler task                                                *)

InitCommon ==
    /\ enabled = [a \in Accounts |-> TRUE]
    /\ total_emails_processed = [a \in Accounts |-> 0]
    /\ last_check = [a \in Accounts |-> 0]
    /\ email_logs = {}
    /\ email_attachments = {}
    /\ now = 0
    /\ processing = FALSE
    /\ active_clients = <<>>
    /\ clears = 0
    /\ connected = {}
    /\ loggedOut = {}
    /\ schedPc = "off"
    /\ cycleConfigs = <<>>
    /\ cycleIdx = 0
    /\ lastCycleErr = FALSE
    /\ lifePc = "up"
    /\ stopQueue = <<>>
    /\ stopSize = 0
    /\ stopSnapshot = {}
    /\ rPc = [r \in Runs |-> None]
    /\ rAcct = [r \in Runs |-> IF r \in SchedRuns THEN r[2] ELSE 1]
    /\ rClient = [r \in Runs |-> None]
    /\ rPos = [r \in Runs |-> 0]
    /\ rEmails = [r \in Runs |-> <<>>]
    /\ rOutcome = [r \in Runs |-> None]
    /\ rChecked = [r \in Runs |-> FALSE]
    /\ rAdded = [r \in Runs |-> 0]
    /\ errLog = {}
    /\ polls = 0
    /\ firstLogs = {}
    /\ firstAtts = {}

\* The mailboxes of the scheduling specification: account 1 holds a plain
\* message followed by one with an attachment, every other account holds the
\* message with the attachment alone (also present in account 1's mailbox).
SchedMailbox(a) ==
    IF a = 1 THEN <<Msg("m1", 0, 0), Msg("m2", 1, 1)>> ELSE <<Msg("m2", 1, 1)>>

\* nothing has been fetched raw
IdleAttach == rawbox = <<>>

\* no call of the resolver, the extractor or the attachment processor is
\* under way
IdlePolicy ==
    /\ settings = None
    /\ overrides = None
    /\ policy = None
    /\ part = None
    /\ content_type = None
    /\ data = 0
    /\ ret = None
    /\ decoded = {}
    /\ attachment = None

\* no fetch_new_emails call is under way
IdleFetch ==
    /\ server = None
    /\ imapPc = "idle"
    /\ isConnected = FALSE
    /\ commands = {}
    /\ folderIdx = 0
    /\ uidIdx = 0
    /\ folder_emails = <<>>
    /\ all_emails = <<>>
    /\ seen = {}

\* no search request is under way
IdleSearch ==
    /\ limit = 0
    /\ skip = 0
    /\ matching = 0
    /\ backend = None

\* no search request with a query is under way
IdleQuery ==
    /\ query = <<>>
    /\ field = None
    /\ search_attachments = FALSE
    /\ stored = None

\* no account is created, renamed or deleted
IdleCrud == smtp_configs = {}

\* the IMAP server does not come and go
IdleNet == reachable = TRUE

\* start_processing calls made one after another, each its own task
MaxLoops == 3

LoopTasks == 1..MaxLoops

\* no start_processing call besides the one of the lifespan
IdleLoops == loopPc = [t \in LoopTasks |-> "none"]

\* the connection settings of the accounts are not looked at
IdleCreds == creds = None

IdleExt == IdleQuery /\ IdleCrud /\ IdleNet /\ IdleLoops /\ IdleCreds

InitAux == IdleAttach /\ IdlePolicy /\ IdleFetch /\ IdleSearch /\ IdleExt

Init ==
    /\ InitCommon
    /\ InitAux
    /\ mailbox = [a \in Accounts |-> SchedMailbox(a)]

----------------------------------------------------------------------------
(* The poller: _process_server and SMTPClient.fetch_new_emails *)

\* a task slot as create_task / process_server_now leaves it
ResetRun(r, a, pc, c) ==
    /\ rPc' = [rPc EXCEPT ![r] = pc]
    /\ rAcct' = [rAcct EXCEPT ![r] = a]
    /\ rClient' = [rClient EXCEPT ![r] = c]
    /\ rPos' = [rPos EXCEPT ![r] = 0]
    /\ rEmails' = [rEmails EXCEPT ![r] = <<>>]
    /\ rOutcome' = [rOutcome EXCEPT ![r] = None]
    /\ rChecked' = [rChecked EXCEPT ![r] = FALSE]
    /\ rAdded' = [rAdded EXCEPT ![r] = 0]

\* the slots of the given runs are released, every other slot is left alone
Release(S) ==
    /\ rPc' = [r \in Runs |-> IF r \in S THEN None ELSE rPc[r]]
    /\ rAcct' = [r \in Runs |-> IF r \in S /\ r \in ManualRuns THEN 1 ELSE rAcct[r]]
    /\ rClient' = [r \in Runs |-> IF r \in S THEN None ELSE rClient[r]]
    /\ rPos' = [r \in Runs |-> IF r \in S THEN 0 ELSE rPos[r]]
    /\ rEmails' = [r \in Runs |-> IF r \in S THEN <<>> ELSE rEmails[r]]
    /\ rOutcome' = [r \in Runs |-> IF r \in S THEN None ELSE rOutcome[r]]
    /\ rChecked' = [r \in Runs |-> IF r \in S THEN FALSE ELSE rChecked[r]]
    /\ rAdded' = [r \in Runs |-> IF r \in S THEN 0 ELSE rAdded[r]]

\* _process_server up to its first suspension: get or create the client of
\* the key, then fetch_new_emails awaits connect() when the client is not
\* connected, and the LIST command otherwise
EnterServer(r, a) ==
    LET clients == IF HasClient(active_clients, a)
                   THEN active_clients
                   ELSE Append(active_clients, <<ClientKey(a), clears>>)
        c == ClientOf(clients, a)
    IN  /\ active_clients' = clients
        /\ ResetRun(r, a, IF c \in connected THEN "fetching" ELSE "connecting", c)

\* the first step of a task the scheduler created
RunBegin(r) ==
    /\ r \in SchedRuns
    /\ rPc[r] = "start"
    /\ EnterServer(r, rAcct[r])
    /\ UNCHANGED <<mailbox, storeVars, clears, connected, loggedOut, schedVars,
                   lifeVars, errLog, ingestVars>>

\* process_server_now: an error dict for a disabled account, else the poller
\* routine runs in the caller's task
ManualTrigger(r, a) ==
    /\ r \in ManualRuns
    /\ lifePc = "up"
    /\ rPc[r] = None
    /\ enabled[a]
    /\ EnterServer(r, a)
    /\ UNCHANGED <<mailbox, storeVars, clears, connected, loggedOut, schedVars,
                   lifeVars, errLog, ingestVars>>

\* process_server_now returns its result dict to the request handler
ManualReturn(r) ==
    /\ r \in ManualRuns
    /\ rPc[r] = "finished"
    /\ Release({r})
    /\ UNCHANGED <<mailbox, storeVars, clientVars, schedVars, lifeVars, errLog,
                   ingestVars>>

\* The tail of _process_server after fetch_new_emails returned emails, with
\* no exception: _process_emails, _update_server_stats, the last_check update
ServerTail(r, a, emails) ==
    LET st == IF emails # <<>>
              THEN ProcessEmails(email_logs, email_attachments, errLog, emails, a)
              ELSE [logs |-> email_logs, atts |-> email_attachments,
                    bound |-> FALSE, errs |-> errLog]
        count == IF emails # <<>>
                 THEN UpdateServerStats(total_emails_processed[a],
                                        EmailCount(emails, email_logs, st.logs))
                 ELSE total_emails_processed[a]
    IN  /\ now < MaxClock
        /\ email_logs' = st.logs
        /\ email_attachments' = st.atts
        /\ errLog' = st.errs
        /\ total_emails_processed' = [total_emails_processed EXCEPT ![a] = count]
        /\ now' = now + 1
        /\ last_check' = [last_check EXCEPT ![a] = now + 1]
        /\ rPc' = [rPc EXCEPT ![r] = "finished"]
        /\ rOutcome' = [rOutcome EXCEPT ![r] = "ok"]
        /\ rChecked' = [rChecked EXCEPT ![r] = TRUE]
        /\ rAdded' = [rAdded EXCEPT ![r] = count - total_emails_processed[a]]
        /\ UNCHANGED enabled

\* connect() returned True: login answered OK
ConnectOk(r) ==
    /\ rPc[r] = "connecting"
    /\ connected' = connected \cup {rClient[r]}
    /\ rPc' = [rPc EXCEPT ![r] = "fetching"]
    /\ UNCHANGED <<mailbox, storeVars, active_clients, clears, loggedOut,
                   schedVars, lifeVars, rAcct, rClient, rPos, rEmails, rOutcome,
                   rChecked, rAdded, errLog, ingestVars>>

\* connect() returned False: fetch_new_emails returns [] and the poller goes
\* on to the last_check update
ConnectFail(r) ==
    /\ rPc[r] = "connecting"
    /\ ServerTail(r, rAcct[r], <<>>)
    /\ UNCHANGED <<mailbox, clientVars, schedVars, lifeVars, rAcct, rClient,
                   rPos, rEmails, ingestVars>>

\* the answer to FETCH of the next message: on a connected client it is OK
\* and the parsed message is appended; on a client that was logged out in
\* the meantime the command fails and the message is skipped
FetchOk(c, conn) == c \in conn

FetchMessage(r) ==
    /\ rPc[r] = "fetching"
    /\ rPos[r] < Len(mailbox[rAcct[r]])
    /\ rEmails' = [rEmails EXCEPT ![r] =
          IF FetchOk(rClient[r], connected)
          THEN Append(@, mailbox[rAcct[r]][rPos[r] + 1]) ELSE @]
    /\ rPos' = [rPos EXCEPT ![r] = @ + 1]
    /\ UNCHANGED <<mailbox, storeVars, clientVars, schedVars, lifeVars, rPc,
                   rAcct, rClient, rOutcome, rChecked, rAdded, errLog, ingestVars>>

\* fetch_new_emails returns all_emails and the poller runs to its end
FetchReturn(r) ==
    /\ rPc[r] = "fetching"
    /\ rPos[r] = Len(mailbox[rAcct[r]])
    /\ ServerTail(r, rAcct[r], rEmails[r])
    /\ UNCHANGED <<mailbox, clientVars, schedVars, lifeVars, rAcct, rClient,
                   rPos, rEmails, ingestVars>>

\* fetch_new_emails returns a non-empty list and EmailLogger() raises (the
\* log directory cannot be created): the except clause of _process_server
\* logs it, nothing is ingested and neither counter is written
FetchReturnFault(r) ==
    /\ rPc[r] = "fetching"
    /\ rPos[r] = Len(mailbox[rAcct[r]])
    /\ rEmails[r] # <<>>
    /\ rPc' = [rPc EXCEPT ![r] = "finished"]
    /\ rOutcome' = [rOutcome EXCEPT ![r] = "error"]
    /\ UNCHANGED <<mailbox, storeVars, clientVars, schedVars, lifeVars, rAcct,
                   rClient, rPos, rEmails, rChecked, rAdded, errLog, ingestVars>>

----------------------------------------------------------------------------
(* The scheduler: start_processing and _process_all_servers *)

\* asyncio.create_task(self._process_server(config_copy))
CreateTask(a) == ResetRun(<<"sched", a>>, a, "start", None)

\* the result of the finished task of account a is taken by gather and a task
\* is created for account b
SwapTask(a, b) ==
    LET old == <<"sched", a>>
        new == <<"sched", b>>
        Set(f, vOld, vNew) ==
            [r \in Runs |-> IF r = new THEN vNew ELSE IF r = old THEN vOld ELSE f[r]]
    IN  /\ rPc' = Set(rPc, None, "start")
        /\ rClient' = Set(rClient, None, None)
        /\ rPos' = Set(rPos, 0, 0)
        /\ rEmails' = Set(rEmails, <<>>, <<>>)
        /\ rOutcome' = Set(rOutcome, None, None)
        /\ rChecked' = Set(rChecked, FALSE, FALSE)
        /\ rAdded' = Set(rAdded, 0, 0)
        /\ UNCHANGED rAcct

\* variant: an exception of the cycle leaves the loop
SleepAfterFatal(raised) == IF raised THEN "exited" ELSE "sleep30"

\* the sleep after a cycle: asyncio.sleep(30) after a cycle that returned,
\* asyncio.sleep(60) in the except clause
SleepAfter(raised) == IF raised THEN "sleep60" ELSE "sleep30"

\* One pass of the loop body up to its first suspension.  The query of the
\* enabled accounts may raise (storage error); with no enabled account the
\* cycle returns at once; otherwise the first task is created and, inside
\* the same for-loop iteration, gathered.
BeginCycle ==
    \E dbError \in BOOLEAN :
        LET configs == EnabledConfigs(enabled)
        IN  IF dbError \/ configs = <<>>
            THEN /\ schedPc' = SleepAfter(dbError)
                 /\ lastCycleErr' = dbError
                 /\ cycleConfigs' = <<>>
                 /\ cycleIdx' = 0
                 /\ UNCHANGED runVars
            ELSE /\ schedPc' = "gather"
                 /\ cycleConfigs' = configs
                 /\ cycleIdx' = 1
                 /\ CreateTask(configs[1])
                 /\ lastCycleErr' = FALSE

\* start_processing, called once by the lifespan: returns at once when the
\* flag is already set, else sets it and enters the loop
StartProcessing ==
    /\ schedPc = "off"
    /\ lifePc = "up"
    /\ IF processing
       THEN /\ schedPc' = "exited"
            /\ UNCHANGED <<processing, cycleConfigs, cycleIdx, lastCycleErr, runVars>>
       ELSE /\ processing' = TRUE
            /\ BeginCycle
    /\ UNCHANGED <<mailbox, storeVars, clientVars, lifeVars, errLog, ingestVars>>

\* every task gathered so far is done: the earlier ones were done at the
\* previous gather, the last one created is the one still awaited
Gathered == rPc[<<"sched", cycleConfigs[cycleIdx]>>] = "finished"

\* gather returned and the for-loop has a next config: create its task and
\* gather again (all tasks created so far)
GatherNext ==
    /\ schedPc = "gather"
    /\ Gathered
    /\ cycleIdx < Len(cycleConfigs)
    /\ cycleIdx' = cycleIdx + 1
    /\ SwapTask(cycleConfigs[cycleIdx], cycleConfigs[cycleIdx + 1])
    /\ UNCHANGED <<mailbox, storeVars, clientVars, processing, schedPc,
                   cycleConfigs, lastCycleErr, lifeVars, errLog, ingestVars>>

\* gather returned for the last config: the cycle returns, its tasks are
\* dropped, sleep(30)
CycleDone ==
    /\ schedPc = "gather"
    /\ Gathered
    /\ cycleIdx = Len(cycleConfigs)
    /\ schedPc' = SleepAfter(FALSE)
    /\ lastCycleErr' = FALSE
    /\ cycleConfigs' = <<>>
    /\ cycleIdx' = 0
    /\ Release(SchedRuns)
    /\ UNCHANGED <<mailbox, storeVars, clientVars, processing, lifeVars,
                   errLog, ingestVars>>

\* the sleep is over: the while condition is tested, and the next cycle
\* begins or the loop ends
Wake ==
    /\ schedPc \in {"sleep30", "sleep60"}
    /\ IF processing
       THEN BeginCycle
       ELSE /\ schedPc' = "exited"
            /\ UNCHANGED <<cycleConfigs, cycleIdx, lastCycleErr, runVars>>
    /\ UNCHANGED <<mailbox, storeVars, clientVars, processing, lifeVars,
                   errLog, ingestVars>>

\* PUT /smtp-configs/{id} with the enabled field: only the fields sent are
\* written
UpdateConfig(a) ==
    /\ lifePc = "up"
    /\ enabled' = [enabled EXCEPT ![a] = ~@]
    /\ UNCHANGED <<mailbox, total_emails_processed, last_check, email_logs,
                   email_attachments, now, clientVars, schedVars, lifeVars,
                   runVars, errLog, ingestVars>>

----------------------------------------------------------------------------
(* Shutdown: stop_processing, then the lifespan cancels the scheduler task *)

\* disconnect() of a client that is not connected does nothing and does not
\* suspend: the iteration runs on to the next connected client
RECURSIVE SkipIdle(_, _)
SkipIdle(queue, conn) ==
    IF queue = <<>> \/ Head(queue) \in conn THEN queue
    ELSE SkipIdle(Tail(queue), conn)

\* the iteration over active_clients.values() goes on with the given rest:
\* it suspends in the logout of the next connected client, or ends and the
\* map is cleared
StopContinue(rest, conn) ==
    LET queue == SkipIdle(rest, conn)
    IN  IF queue = <<>>
        THEN /\ active_clients' = <<>>
             /\ clears' = clears + 1
             /\ lifePc' = "stopped"
             /\ stopQueue' = <<>>
        ELSE /\ lifePc' = "stopping"
             /\ stopQueue' = queue
             /\ UNCHANGED <<active_clients, clears>>

StopBegin ==
    /\ lifePc = "up"
    /\ processing' = FALSE
    /\ stopSnapshot' = ClientSet(active_clients)
    /\ stopSize' = Len(active_clients)
    /\ StopContinue(active_clients, connected)
    /\ UNCHANGED <<mailbox, storeVars, connected, loggedOut, schedPc,
                   cycleConfigs, cycleIdx, lastCycleErr, runVars, errLog,
                   ingestVars>>

\* the logout of the client at the head of the queue returned (or raised: it
\* is logged and _connected stays True); advancing the iterator raises
\* RuntimeError when a poller added a client to the map in the meantime
StopLogoutDone ==
    /\ lifePc = "stopping"
    /\ \E ok \in BOOLEAN :
        LET c == Head(stopQueue)
            conn == IF ok THEN connected \ {c} ELSE connected
        IN  /\ connected' = conn
            /\ loggedOut' = IF ok THEN loggedOut \cup {c} ELSE loggedOut
            /\ IF Len(active_clients) # stopSize
               THEN /\ lifePc' = "stop_error"
                    /\ UNCHANGED <<active_clients, clears, stopQueue>>
               ELSE StopContinue(Tail(stopQueue), conn)
    /\ UNCHANGED <<mailbox, storeVars, schedVars, stopSize, stopSnapshot,
                   runVars, errLog, ingestVars>>

\* processing_task.cancel() after stop_processing returned: the scheduler
\* task is cancelled where it is suspended, and the gather it awaits cancels
\* its tasks; CancelledError passes every `except Exception`
CancelProcessingTask ==
    /\ lifePc = "stopped"
    /\ lifePc' = "down"
    /\ schedPc' = IF schedPc \in {"gather", "sleep30", "sleep60", "off"}
                  THEN "cancelled" ELSE schedPc
    /\ rPc' = [r \in Runs |->
                 IF r \in SchedRuns /\ Running(r) THEN "finished" ELSE rPc[r]]
    /\ rOutcome' = [r \in Runs |->
                 IF r \in SchedRuns /\ Running(r) THEN "cancelled" ELSE rOutcome[r]]
    /\ UNCHANGED <<mailbox, storeVars, clientVars, processing, cycleConfigs,
                   cycleIdx, lastCycleErr, stopQueue, stopSize, stopSnapshot,
                   rAcct, rClient, rPos, rEmails, rChecked, rAdded, errLog,
                   ingestVars>>

----------------------------------------------------------------------------
(* Specification of the scheduler, the pollers and the shutdown *)

Next ==
    \/ StartProcessing
    \/ GatherNext
    \/ CycleDone
    \/ Wake
    \/ \E r \in Runs : RunBegin(r)
    \/ \E r \in Runs, a \in Accounts : ManualTrigger(r, a)
    \/ \E r \in Runs : ManualReturn(r)
    \/ \E r \in Runs : ConnectOk(r)
    \/ \E r \in Runs : ConnectFail(r)
    \/ \E r \in Runs : FetchMessage(r)
    \/ \E r \in Runs : FetchReturn(r)
    \/ \E r \in Runs : FetchReturnFault(r)
    \/ \E a \in Accounts : UpdateConfig(a)
    \/ StopBegin
    \/ StopLogoutDone
    \/ CancelProcessingTask

Spec == Init /\ [][Next]_vars

----------------------------------------------------------------------------
(* Specification of repeated polls of one unchanged mailbox: every poll is a *)
(* whole poller run (connect, fetch of every message, tail) with no other   *)
(* task in between                                                          *)

RECURSIVE SeqsUpTo(_, _)
SeqsUpTo(S, n) ==
    IF n = 0 THEN {<<>>}
    ELSE LET shorter == SeqsUpTo(S, n - 1)
         IN  shorter \cup {Append(q, x) : q \in shorter, x \in S}

\* the account whose mailbox is polled
IngestAccount == CHOOSE a \in Accounts : \A b \in Accounts : a <= b

InitIngest ==
    /\ InitCommon
    /\ InitAux
    /\ \E box \in SeqsUpTo(Message, MaxMailbox) :
          mailbox = [a \in Accounts |-> IF a = IngestAccount THEN box ELSE <<>>]

PollOnce ==
    LET r == <<"manual", 1>>
        a == IngestAccount
    IN  /\ ServerTail(r, a, mailbox[a])
        /\ rEmails' = [rEmails EXCEPT ![r] = mailbox[a]]
        /\ polls' = polls + 1
        /\ firstLogs' = IF polls = 0 THEN email_logs' ELSE firstLogs
        /\ firstAtts' = IF polls = 0 THEN email_attachments' ELSE firstAtts
        /\ UNCHANGED <<mailbox, clientVars, schedVars, lifeVars, rAcct, rClient,
                       rPos, auxVars>>

NextIngest == PollOnce

SpecIngest == InitIngest /\ [][NextIngest]_vars

----------------------------------------------------------------------------
(* Specification of manual polls of one long mailbox *)

LongBox == [i \in 1..LongMailbox |->
               IF i % 2 = 1 THEN Msg("m1", 0, 0) ELSE Msg("m2", 1, 1)]

InitBatch ==
    /\ InitCommon
    /\ InitAux
    /\ mailbox = [a \in Accounts |-> IF a = IngestAccount THEN LongBox ELSE <<>>]

NextBatch ==
    \/ \E r \in Runs, a \in Accounts : ManualTrigger(r, a)
    \/ \E r \in Runs : ManualReturn(r)
    \/ \E r \in Runs : ConnectOk(r)
    \/ \E r \in Runs : ConnectFail(r)
    \/ \E r \in Runs : FetchMessage(r)
    \/ \E r \in Runs : FetchReturn(r)
    \/ \E r \in Runs : FetchReturnFault(r)

SpecBatch == InitBatch /\ [][NextBatch]_vars

----------------------------------------------------------------------------
(* Raw messages and their MIME parts: what _parse_email and                 *)
(* extract_attachments read off message_from_bytes(raw_email)               *)

\* most parts msg.walk() yields for one message (the message itself first)
MaxParts == 2
\* largest payload length of a part
MaxPayload == 1

\* A MIME type as text: top-level type and subtype (named by their lower-cased
\* text) and the components, of "main" and "sub", that hold an upper-case
\* letter in the text as given.
MimeType(main, sub, up) == [main |-> main, sub |-> sub, upper |-> up]

\* variant: the text is compared as given
NotLowered(mt) == mt

\* str.lower() of a MIME type
Lower(mt) == [mt EXCEPT !.upper = {}]

\* str.startswith(main + "/")
StartsWith(mt, main) == mt.main = main /\ "main" \notin mt.upper

\* part.get_content_type(): the email package returns it lower-cased
PartTypes == {MimeType("text", "plain", {}), MimeType("text", "html", {}),
              MimeType("image", "png", {}),
              MimeType("application", "pdf", {}),
              MimeType("multipart", "mixed", {})}

\* the Content-Disposition of a part ("none": the header is absent)
Dispositions == {"none", "inline", "attachment"}

\* A part as msg.walk() yields it: whether get_filename() is non-empty, the
\* disposition, the content type and the length of the decoded payload.
Part == [filename : BOOLEAN, disposition : Dispositions, mime : PartTypes,
         payload : 0..MaxPayload]

\* A raw message: its Message-ID and the sequence msg.walk() yields, the
\* message itself first.
RawMessage ==
    [mid : MsgIds, parts : UNION {[1..n -> Part] : n \in 0..MaxParts}]

\* msg.is_multipart()
IsMultipart(raw) ==
    Len(raw.parts) > 0 /\ raw.parts[1].mime.main = "multipart"

\* _parse_email, "Count attachments": the parts of a multipart message whose
\* Content-Disposition is attachment
AttachmentCountHint(raw) ==
    IF IsMultipart(raw)
    THEN Cardinality({i \in 1..Len(raw.parts) :
                         raw.parts[i].disposition = "attachment"})
    ELSE 0

\* AttachmentHandler._is_attachment
IsAttachment(p) ==
    \/ p.filename
    \/ p.disposition = "attachment"
    \/ p.mime.main \in {"image", "audio", "video", "application"}

\* the parts extract_attachments hands to _process_attachment: the walk skips
\* multipart containers
Handed(p) ==
    /\ p.mime.main # "multipart"
    /\ (p.disposition = "attachment" \/ IsAttachment(p))

\* _process_attachment returns None for an empty payload
EmptyPayload(p) == p.payload = 0

\* number of Attachment objects extract_attachments returns for the message
Extracted(raw) ==
    Cardinality({i \in 1..Len(raw.parts) :
                    Handed(raw.parts[i]) /\ ~EmptyPayload(raw.parts[i])})

\* _parse_email reduced to what ingestion reads
ParseEmail(raw) == Msg(raw.mid, AttachmentCountHint(raw), Extracted(raw))

----------------------------------------------------------------------------
(* Specification of the ingestion of one fetched list of raw messages: a    *)
(* new message, alone or after a plain text message of the same fetch       *)

\* a non-multipart text/plain message with a body
PlainRaw(mid) ==
    [mid |-> mid,
     parts |-> <<[filename |-> FALSE, disposition |-> "none",
                  mime |-> MimeType("text", "plain", {}), payload |-> 1]>>]

InitAttach ==
    /\ InitCommon
    /\ IdleExt
    /\ IdlePolicy
    /\ IdleFetch
    /\ IdleSearch
    /\ mailbox = [a \in Accounts |-> <<>>]
    /\ \E raw \in RawMessage, first \in BOOLEAN :
          /\ raw.mid = "m2"
          /\ rawbox = IF first THEN <<raw>> ELSE <<PlainRaw("m1"), raw>>

\* _process_server from the return of fetch_new_emails on
IngestRaw ==
    LET r == <<"manual", 1>>
        a == IngestAccount
        emails == [i \in 1..Len(rawbox) |-> ParseEmail(rawbox[i])]
    IN  /\ polls = 0
        /\ ServerTail(r, a, emails)
        /\ rEmails' = [rEmails EXCEPT ![r] = emails]
        /\ polls' = polls + 1
        /\ UNCHANGED <<mailbox, clientVars, schedVars, lifeVars, rAcct, rClient,
                       rPos, firstLogs, firstAtts, auxVars>>

NextAttach == IngestRaw

SpecAttach == InitAttach /\ [][NextAttach]_vars

----------------------------------------------------------------------------
(* The policy resolver: src/storage_config/resolver.py.  An Optional value  *)
(* is a set: {} for None, {v} for the value v.                              *)

\* largest max_attachment_size_text of the global settings
MaxSize == 2

Unset == {}
Some(v) == {v}
Val(opt) == CHOOSE v \in opt : TRUE

Min(x, y) == IF x <= y THEN x ELSE y

\* the global settings the resolver reads
Settings == [store_text_only : BOOLEAN,
             max_attachment_size_text : 1..MaxSize,
             extract_pdf_text : BOOLEAN,
             extract_docx_text : BOOLEAN,
             extract_image_text : BOOLEAN,
             extract_other_text : BOOLEAN]

OptBool == {Unset, Some(TRUE), Some(FALSE)}
OptSize == {Unset} \cup {Some(n) : n \in 0..(MaxSize + 1)}

\* the override columns of an account
Overrides == [store_text_only_override : OptBool,
              max_attachment_size_override : OptSize,
              extract_pdf_text_override : OptBool,
              extract_docx_text_override : OptBool,
              extract_image_text_override : OptBool,
              extract_other_text_override : OptBool]

\* variant: a set override replaces the global value
AccountWins(global_val, account_val) ==
    IF account_val = Unset THEN global_val ELSE Val(account_val)

\* _resolve_boolean
ResolveBoolean(global_val, account_val) ==
    IF account_val = Unset THEN global_val
    ELSE global_val /\ Val(account_val)

\* _resolve_max_value
ResolveMaxValue(global_val, account_val) ==
    IF account_val = Unset THEN global_val
    ELSE Min(global_val, Val(account_val))

\* resolve_storage_config(smtp_config)
ResolveStorageConfig(glob, smtp_config) ==
    IF smtp_config = Unset
    THEN [store_text_only |-> glob.store_text_only,
          max_attachment_size |-> glob.max_attachment_size_text,
          extract_pdf_text |-> glob.extract_pdf_text,
          extract_docx_text |-> glob.extract_docx_text,
          extract_image_text |-> glob.extract_image_text,
          extract_other_text |-> glob.extract_other_text]
    ELSE LET acc == Val(smtp_config)
         IN  [store_text_only |->
                 ResolveBoolean(glob.store_text_only, acc.store_text_only_override),
              max_attachment_size |->
                 ResolveMaxValue(glob.max_attachment_size_text,
                                 acc.max_attachment_size_override),
              extract_pdf_text |->
                 ResolveBoolean(glob.extract_pdf_text, acc.extract_pdf_text_override),
              extract_docx_text |->
                 ResolveBoolean(glob.extract_docx_text, acc.extract_docx_text_override),
              extract_image_text |->
                 ResolveBoolean(glob.extract_image_text, acc.extract_image_text_override),
              extract_other_text |->
                 ResolveBoolean(glob.extract_other_text, acc.extract_other_text_override)]

WordProcessorTypes ==
    {MimeType("application", "msword", {}),
     MimeType("application",
              "vnd.openxmlformats-officedocument.wordprocessingml.document", {})}

OtherTextTypes ==
    {MimeType("application", sub, {}) : sub \in {"json", "xml", "csv", "rtf"}}

\* should_extract_text(config, content_type)
ShouldExtractText(config, ct) ==
    IF ct = Unset THEN FALSE
    ELSE LET content_type_lower == Lower(Val(ct))
         IN  IF content_type_lower = MimeType("application", "pdf", {})
             THEN config.extract_pdf_text
             ELSE IF content_type_lower \in WordProcessorTypes
             THEN config.extract_docx_text
             ELSE IF StartsWith(content_type_lower, "image")
             THEN config.extract_image_text
             ELSE IF StartsWith(content_type_lower, "text")
             THEN config.extract_other_text
             ELSE IF content_type_lower \in OtherTextTypes
             THEN config.extract_other_text
             ELSE FALSE

----------------------------------------------------------------------------
(* Specification of calls of resolve_storage_config *)

InitResolve ==
    /\ InitCommon
    /\ IdleExt
    /\ IdleAttach
    /\ IdleFetch
    /\ IdleSearch
    /\ mailbox = [a \in Accounts |-> <<>>]
    /\ settings \in Settings
    /\ overrides \in {Unset} \cup {Some(o) : o \in Overrides}
    /\ policy = None
    /\ part = None
    /\ content_type = None
    /\ data = 0
    /\ ret = None
    /\ decoded = {}
    /\ attachment = None

mainVars == <<mailbox, storeVars, clientVars, schedVars, lifeVars, runVars,
              errLog, firstLogs, firstAtts, extVars>>

ResolveCall ==
    /\ polls = 0
    /\ policy' = ResolveStorageConfig(settings, overrides)
    /\ polls' = 1
    /\ UNCHANGED <<mainVars, attachVars, imapVars, searchVars, settings,
                   overrides, part, content_type, data, ret, decoded,
                   attachment>>

NextResolve == ResolveCall

SpecResolve == InitResolve /\ [][NextResolve]_vars

----------------------------------------------------------------------------
(* The text extractor: TextExtractor.extract *)

\* the format decoder extract dispatches a lower-cased content type to
Decoder(lowered) ==
    LET T(main, sub) == MimeType(main, sub, {})
    IN  IF lowered = T("text", "plain") THEN "_decode_utf8"
        ELSE IF lowered \in {T("text", "html"), T("application", "xhtml+xml")}
        THEN "_extract_html"
        ELSE IF lowered \in {T("text", "csv"), T("text", "xml"),
                             T("application", "json")}
        THEN "_decode_utf8"
        ELSE IF lowered = T("application", "rtf") THEN "_extract_rtf"
        ELSE IF lowered = T("application", "pdf") THEN "_extract_pdf"
        ELSE IF lowered \in WordProcessorTypes THEN "_extract_docx"
        ELSE IF lowered = T("application", "vnd.oasis.opendocument.text")
        THEN "_extract_odt"
        ELSE IF lowered \in
                {T("application", "vnd.ms-excel"),
                 T("application",
                   "vnd.openxmlformats-officedocument.spreadsheetml.sheet")}
        THEN "_extract_xlsx"
        ELSE IF lowered = T("application", "vnd.oasis.opendocument.spreadsheet")
        THEN "_extract_ods"
        ELSE IF lowered \in
                {T("application", "vnd.ms-powerpoint"),
                 T("application",
                   "vnd.openxmlformats-officedocument.presentationml.presentation")}
        THEN "_extract_pptx"
        ELSE IF StartsWith(lowered, "image") THEN "_extract_image_ocr"
        ELSE None

\* what a decoder does with the bytes: returns a non-empty text, returns the
\* empty string (also its own handler's answer to a failure), or raises
DecoderOutcomes == {"text", "", "raise"}

\* variant: the extractor does not ask the policy
IgnorePolicy(config, ct) == TRUE

\* the policy check of extract
PolicyAllows(config, ct) == ShouldExtractText(config, ct)

\* extract(data, content_type, config): the value returned and the decoders
\* invoked; None stands for Python's None
Extract(d, ct, config, outcome) ==
    IF d = 0 \/ ct = Unset
    THEN [value |-> None, decoders |-> {}]
    ELSE IF ~PolicyAllows(config, ct)
    THEN [value |-> None, decoders |-> {}]
    ELSE LET dec == Decoder(Lower(Val(ct)))
         IN  IF dec = None
             THEN [value |-> None, decoders |-> {}]
             ELSE [value |-> IF outcome = "raise" THEN None ELSE outcome,
                   decoders |-> {dec}]

----------------------------------------------------------------------------
(* Specification of calls of should_extract_text and of extract *)

\* the MIME types given to the calls: every top-level type with every
\* subtype, in every casing, and no type at all
SampleTypes ==
    {Unset} \cup
    {Some(MimeType(main, sub, up)) :
        main \in {"text", "image", "application", "audio"},
        sub \in {"plain", "html", "csv", "xml", "json", "rtf", "pdf", "msword",
                 "vnd.openxmlformats-officedocument.wordprocessingml.document",
                 "png", "zip", "xhtml+xml"},
        up \in SUBSET {"main", "sub"}}

\* the StorageConfig values given to the calls
Policies ==
    [store_text_only : {FALSE}, max_attachment_size : {MaxSize},
     extract_pdf_text : BOOLEAN, extract_docx_text : BOOLEAN,
     extract_image_text : BOOLEAN, extract_other_text : BOOLEAN]

InitShould ==
    /\ InitCommon
    /\ IdleExt
    /\ IdleAttach
    /\ IdleFetch
    /\ IdleSearch
    /\ mailbox = [a \in Accounts |-> <<>>]
    /\ settings = None
    /\ overrides = None
    /\ policy \in Policies
    /\ part = None
    /\ content_type \in SampleTypes
    /\ data \in 0..MaxPayload
    /\ ret = None
    /\ decoded = {}
    /\ attachment = None

ShouldExtractCall ==
    /\ polls = 0
    /\ ret' = [fn |-> "should_extract_text",
               value |-> ShouldExtractText(policy, content_type)]
    /\ polls' = 1
    /\ UNCHANGED <<mainVars, attachVars, imapVars, searchVars, settings,
                   overrides, policy, part, content_type, data, decoded,
                   attachment>>

ExtractCall ==
    /\ polls = 0
    /\ \E outcome \in DecoderOutcomes :
          LET res == Extract(data, content_type, policy, outcome)
          IN  /\ ret' = [fn |-> "extract", value |-> res.value]
              /\ decoded' = res.decoders
    /\ polls' = 1
    /\ UNCHANGED <<mainVars, attachVars, imapVars, searchVars, settings,
                   overrides, policy, part, content_type, data, attachment>>

NextShould == ShouldExtractCall \/ ExtractCall

SpecShould == InitShould /\ [][NextShould]_vars

----------------------------------------------------------------------------
(* The attachment processor as ingestion calls it *)

\* The StorageConfig extract_attachments works with when _process_emails
\* calls it: the call passes no storage_config, and extract_attachments then
\* resolves with no account.
IngestStorageConfig(glob, smtp_config) == ResolveStorageConfig(glob, Unset)

\* _process_attachment(part, email_log_id, account_name, storage_config):
\* the EmailAttachment object returned (Unset for None), the value extract
\* returned and the decoders it invoked.  saved tells whether
\* _save_attachment_text could write the text file.
ProcessAttachment(p, email_log_id, storage_config, outcome, saved) ==
    IF EmptyPayload(p)
    THEN [attachment |-> Unset, value |-> None, decoders |-> {}]
    ELSE LET res == Extract(p.payload, Some(p.mime), storage_config, outcome)
             att == [email_log_id |-> email_log_id,
                     filename |-> IF p.filename THEN "filename"
                                  ELSE "attachment_unknown",
                     content_type |-> p.mime,
                     size |-> p.payload,
                     text_file_path |->
                        IF res.value \notin {None, ""} /\ saved
                        THEN "text_path" ELSE None]
         IN  [attachment |-> Some(att), value |-> res.value,
              decoders |-> res.decoders]

----------------------------------------------------------------------------
(* Specification of the processing of one attachment part during ingestion *)

\* global settings that differ in the extraction flags
FlagSettings ==
    {s \in Settings : ~s.store_text_only /\ s.max_attachment_size_text = MaxSize}

\* accounts that override extraction flags only
FlagOverrides ==
    {o \in Overrides : /\ o.store_text_only_override = Unset
                       /\ o.max_attachment_size_override = Unset}

InitProcess ==
    /\ InitCommon
    /\ IdleExt
    /\ IdleAttach
    /\ IdleFetch
    /\ IdleSearch
    /\ mailbox = [a \in Accounts |-> <<>>]
    /\ settings \in FlagSettings
    /\ overrides \in {Unset} \cup {Some(o) : o \in FlagOverrides}
    /\ policy = None
    /\ part \in {p \in Part : Handed(p)}
    /\ content_type = None
    /\ data = 0
    /\ ret = None
    /\ decoded = {}
    /\ attachment = None

\* extract_attachments, called by _process_emails, reaches the part
ProcessAttachmentCall ==
    /\ polls = 0
    /\ \E outcome \in DecoderOutcomes, saved \in BOOLEAN :
          LET config == IngestStorageConfig(settings, overrides)
              res == ProcessAttachment(part, 1, config, outcome, saved)
          IN  /\ policy' = config
              /\ attachment' = res.attachment
              /\ ret' = [fn |-> "extract", value |-> res.value]
              /\ decoded' = res.decoders
    /\ polls' = 1
    /\ UNCHANGED <<mainVars, attachVars, imapVars, searchVars, settings,
                   overrides, part, content_type, data>>

NextProcess == ProcessAttachmentCall

SpecProcess == InitProcess /\ [][NextProcess]_vars

----------------------------------------------------------------------------
(* The IMAP client at the level of its commands: SMTPClient.connect,        *)
(* fetch_new_emails and disconnect.  Every await of a command is one step.  *)
(* The server is a script fixed at the start: its answer to the login, to   *)
(* LIST, to SELECT and SEARCH of every folder and to FETCH of every         *)
(* message, and whether SELECT opens the folders read-only.                 *)

\* folders the LIST response names
NumFolders == 2
\* messages SEARCH ALL returns in a folder
UidsPerFolder == 2
\* fetch_new_emails calls on the one client
MaxFetchCalls == 2

Folders == 1..NumFolders
Uids == 1..UidsPerFolder

\* "raise": awaiting the command raised an exception
Responses == {"OK", "NO", "raise"}
FolderResponses == {"OK", "select NO", "select raise", "search NO", "search raise"}

Servers ==
    [login : Responses, list : Responses,
     folder : [Folders -> FolderResponses],
     fetch : [Folders \X Uids -> Responses],
     readOnly : BOOLEAN]

\* variant: every answer to the login counts as success
AnyLoginResponse(resp) == resp \in {"OK", "NO"}

\* connect: login_response.result == "OK"
LoginOk(resp) == resp = "OK"

\* variant: an error on a message ends the loop over the folder's messages
AbortFolder(u, resp) == IF resp = "OK" THEN u + 1 ELSE UidsPerFolder + 1

\* the loop over message_ids goes on with the next message, after a fetched
\* message as after a failed one (continue)
NextMessage(u, resp) == u + 1

\* RFC 3501: FETCH RFC822 is BODY[] and sets \Seen in a folder that SELECT
\* opened read-write
SeenAfterFetch(flags, f, u, readOnly) ==
    IF readOnly THEN flags ELSE flags \cup {<<f, u>>}

\* the loop over folders moves to folder f, or the call returns all_emails
GoFolder(f) ==
    /\ folderIdx' = f
    /\ imapPc' = IF f > NumFolders THEN "done" ELSE "select"

InitFetch ==
    /\ InitCommon
    /\ IdleExt
    /\ IdleAttach
    /\ IdlePolicy
    /\ IdleSearch
    /\ mailbox = [a \in Accounts |-> <<>>]
    /\ server \in Servers
    /\ imapPc = "idle"
    /\ isConnected = FALSE
    /\ commands = {}
    /\ folderIdx = 0
    /\ uidIdx = 0
    /\ folder_emails = <<>>
    /\ all_emails = <<>>
    /\ seen = {}

otherVars == <<mainVars, attachVars, policyVars, searchVars>>

\* fetch_new_emails is called
FetchNewEmails ==
    /\ imapPc \in {"idle", "done"}
    /\ polls < MaxFetchCalls
    /\ polls' = polls + 1
    /\ imapPc' = IF isConnected THEN "list" ELSE "connect"
    /\ commands' = {}
    /\ folderIdx' = 0
    /\ uidIdx' = 0
    /\ folder_emails' = <<>>
    /\ all_emails' = <<>>
    /\ UNCHANGED <<otherVars, server, isConnected, seen>>

\* connect(): greeting, STARTTLS if configured, login
Connect ==
    /\ imapPc = "connect"
    /\ commands' = IF server.login = "raise" THEN commands
                   ELSE commands \cup {"LOGIN"}
    /\ isConnected' = LoginOk(server.login)
    /\ imapPc' = IF LoginOk(server.login) THEN "list" ELSE "done"
    /\ UNCHANGED <<otherVars, polls, server, folderIdx, uidIdx, folder_emails,
                   all_emails, seen>>

\* client.list('""', '*')
List ==
    /\ imapPc = "list"
    /\ commands' = commands \cup {"LIST"}
    /\ IF server.list = "OK"
       THEN GoFolder(1)
       ELSE imapPc' = "done" /\ folderIdx' = folderIdx
    /\ UNCHANGED <<otherVars, polls, server, isConnected, uidIdx, folder_emails,
                   all_emails, seen>>

\* client.select(folder)
Select ==
    /\ imapPc = "select"
    /\ commands' = commands \cup {"SELECT"}
    /\ IF server.folder[folderIdx] \in {"select NO", "select raise"}
       THEN GoFolder(folderIdx + 1)
       ELSE imapPc' = "search" /\ folderIdx' = folderIdx
    /\ UNCHANGED <<otherVars, polls, server, isConnected, uidIdx, folder_emails,
                   all_emails, seen>>

\* client.search("ALL")
Search ==
    /\ imapPc = "search"
    /\ commands' = commands \cup {"SEARCH ALL"}
    /\ IF server.folder[folderIdx] \in {"search NO", "search raise"}
       THEN GoFolder(folderIdx + 1) /\ uidIdx' = uidIdx
       ELSE imapPc' = "fetch" /\ folderIdx' = folderIdx /\ uidIdx' = 1
    /\ folder_emails' = <<>>
    /\ UNCHANGED <<otherVars, polls, server, isConnected, all_emails, seen>>

\* client.fetch(msg_id, "(RFC822)") and _parse_email; after the last message
\* of the folder, all_emails.extend(folder_emails)
Fetch ==
    LET f == folderIdx
        u == uidIdx
        resp == server.fetch[<<f, u>>]
        fetched == IF resp = "OK" THEN Append(folder_emails, <<f, u>>)
                   ELSE folder_emails
        next == NextMessage(u, resp)
    IN  /\ imapPc = "fetch"
        /\ commands' = commands \cup {"FETCH"}
        /\ seen' = IF resp = "OK" THEN SeenAfterFetch(seen, f, u, server.readOnly)
                   ELSE seen
        /\ folder_emails' = fetched
        /\ uidIdx' = next
        /\ IF next > UidsPerFolder
           THEN /\ all_emails' = all_emails \o fetched
                /\ GoFolder(f + 1)
           ELSE /\ all_emails' = all_emails
                /\ imapPc' = "fetch" /\ folderIdx' = f
        /\ UNCHANGED <<otherVars, polls, server, isConnected>>

\* disconnect(): logout; _connected stays set when the logout raises
Disconnect ==
    /\ imapPc \in {"idle", "done"}
    /\ isConnected
    /\ commands' = commands \cup {"LOGOUT"}
    /\ \E ok \in BOOLEAN : isConnected' = ~ok
    /\ UNCHANGED <<otherVars, polls, server, imapPc, folderIdx, uidIdx,
                   folder_emails, all_emails, seen>>

NextFetch ==
    \/ FetchNewEmails
    \/ Connect
    \/ List
    \/ Select
    \/ Search
    \/ Fetch
    \/ Disconnect

SpecFetch == InitFetch /\ [][NextFetch]_vars

----------------------------------------------------------------------------
(* The search endpoint: search_emails, reduced to how many rows it returns *)

\* "limit = min(limit, 100)"
HardCap == 100
\* most rows the filters of a search match
MaxMatching == 102
\* range of the skip parameter
MaxSkip == 1

\* the databases database_url can name: SQLite (the default) and PostgreSQL
Backends == {"sqlite", "postgresql"}

\* min(limit, 100)
ClampLimit(n) == Min(n, HardCap)

\* q.offset(skip).limit(limit).all(): the number of rows returned.  SQLite
\* reads a negative LIMIT as no limit and a negative OFFSET as 0; PostgreSQL
\* rejects either and the request fails with no results.
OffsetLimitAll(rows, off, lim, db) ==
    IF db = "postgresql" /\ (off < 0 \/ lim < 0) THEN 0
    ELSE LET start == IF off < 0 THEN 0 ELSE off
             rest == IF rows > start THEN rows - start ELSE 0
         IN  IF lim < 0 THEN rest ELSE Min(lim, rest)

\* search_emails: the length of the list it responds with
SearchEmails(rows, off, lim, db) ==
    OffsetLimitAll(rows, off, ClampLimit(lim), db)

InitSearch ==
    /\ InitCommon
    /\ IdleExt
    /\ IdleAttach
    /\ IdlePolicy
    /\ IdleFetch
    /\ mailbox = [a \in Accounts |-> <<>>]
    /\ limit \in {-1, 0, 1, HardCap - 1, HardCap, HardCap + 1, MaxMatching}
    /\ skip \in -1..MaxSkip
    /\ matching \in {0, 1, HardCap, HardCap + 1, MaxMatching}
    /\ backend \in Backends

SearchCall ==
    /\ polls = 0
    /\ ret' = [fn |-> "search_emails",
               value |-> SearchEmails(matching, skip, limit, backend)]
    /\ polls' = 1
    /\ UNCHANGED <<mainVars, attachVars, imapVars, searchVars, settings,
                   overrides, policy, part, content_type, data, decoded,
                   attachment>>

NextSearch == SearchCall

SpecSearch == InitSearch /\ [][NextSearch]_vars

----------------------------------------------------------------------------
(* The search endpoint with a query: the regex filter, the attribution of  *)
(* the matched field and the preview.  Texts are sequences of characters;  *)
(* the regexes drawn are literal patterns, one pattern that does not       *)
(* compile, one holding a NUL byte and one longer than the pattern limit.  *)

\* SearchService.MAX_PATTERN_LENGTH
MaxPatternLength == 500
\* "length: int = 200" of _generate_preview
PreviewLength == 200
\* characters of the varying part of a stored text
MaxCore == 2
\* filler characters before and after the varying part: more than half a
\* preview, so that the window of a preview cuts the text
PadLen == 101

Pad(n) == [i \in 1..n |-> "x"]

CoreTexts == UNION {[1..n -> {"a", "A", " "}] : n \in 0..MaxCore}

Texts == {Pad(l) \o c \o Pad(r) : l \in {0, PadLen}, c \in CoreTexts,
                                  r \in {0, PadLen}}

\* queries: empty, literal patterns, an unbalanced parenthesis, a pattern
\* with a NUL byte, and a literal of MaxPatternLength + 1 characters
Queries ==
    {<<>>, <<"a">>, <<" ">>, <<"a", " ">>, <<" ", "a">>, <<"a", "a">>,
     <<"(">>, <<"a", "NUL">>, [i \in 1..(MaxPatternLength + 1) |-> "a"]}

Fields == {None, "sender", "subject", "body", "attachment", "other"}

\* re.compile(pattern) succeeds
Compiles(pattern) == \A i \in 1..Len(pattern) : pattern[i] # "("

\* re.IGNORECASE / the ~* operator on the characters drawn
Fold(c) == IF c = "A" THEN "a" ELSE c

MatchesAt(pattern, text, i) ==
    /\ i + Len(pattern) - 1 <= Len(text)
    /\ \A k \in 1..Len(pattern) : Fold(text[i + k - 1]) = Fold(pattern[k])

\* re.search(pattern, text, re.IGNORECASE) for a literal pattern: the
\* 1-based position of the leftmost match, 0 when there is none
ReSearch(pattern, text) ==
    LET hits == {i \in 1..Len(text) : MatchesAt(pattern, text, i)}
    IN  IF hits = {} THEN 0 ELSE CHOOSE i \in hits : \A j \in hits : i <= j

\* str.strip()
Strip(text) ==
    LET solid == {i \in 1..Len(text) : text[i] # " "}
    IN  IF solid = {} THEN <<>>
        ELSE SubSeq(text, CHOOSE i \in solid : \A j \in solid : i <= j,
                          CHOOSE i \in solid : \A j \in solid : i >= j)

Ellipsis == <<".", ".", ".">>

\* text[:length] + ("..." if len(text) > length else "")
Truncate(text, length) ==
    SubSeq(text, 1, Min(Len(text), length))
        \o (IF Len(text) > length THEN Ellipsis ELSE <<>>)

\* _generate_preview(text, query)
GeneratePreview(text, pattern) ==
    IF text = <<>> \/ pattern = <<>> THEN <<>>
    ELSE IF ~Compiles(pattern) THEN Truncate(text, PreviewLength)
    ELSE LET at == ReSearch(pattern, text)
             start == IF at - 1 > PreviewLength \div 2
                      THEN at - 1 - PreviewLength \div 2 ELSE 0
             end == Min(Len(text),
                        at - 1 + Len(pattern) + PreviewLength \div 2)
         IN  IF at = 0 THEN Truncate(text, PreviewLength)
             ELSE (IF start > 0 THEN Ellipsis ELSE <<>>)
                      \o Strip(SubSeq(text, start + 1, end))
                      \o (IF end < Len(text) THEN Ellipsis ELSE <<>>)

Unfielded(fld) == fld = None

\* lines 546-563: the field a result is attributed to
MatchedField(fld, pattern, email) ==
    IF fld = "body"
       \/ (Unfielded(fld) /\ ReSearch(pattern, email.body_plain) # 0)
    THEN "body"
    ELSE IF fld = "subject"
            \/ (Unfielded(fld) /\ ReSearch(pattern, email.subject) # 0)
    THEN "subject"
    ELSE IF fld = "sender"
            \/ (Unfielded(fld) /\ ReSearch(pattern, email.sender) # 0)
    THEN "sender"
    ELSE "metadata"

\* lines 479-505: the regex filter of the query, on PostgreSQL
RowMatches(fld, pattern, email) ==
    CASE fld = "sender" -> ReSearch(pattern, email.sender) # 0
      [] fld = "subject" -> ReSearch(pattern, email.subject) # 0
      [] fld = "body" -> ReSearch(pattern, email.body_plain) # 0
      [] OTHER -> \/ ReSearch(pattern, email.sender) # 0
                  \/ ReSearch(pattern, email.subject) # 0
                  \/ ReSearch(pattern, email.body_plain) # 0

\* the filter names EmailAttachment.text_content, which the model class does
\* not define: building the query raises AttributeError
NamesTextContent(fld, sa) ==
    fld = "attachment" \/ (fld \notin {"sender", "subject", "body"} /\ sa)

Result(email, mf, pv) ==
    [id |-> email.id, matched_field |-> mf, preview |-> pv]

Response(code, results, ran) ==
    [status |-> code, results |-> results, filtered |-> ran]

\* search_emails with the default filters and pagination over a table that
\* holds the one row email.  An exception that leaves the handler is answered
\* by global_exception_handler with status 500.
SearchResponse(db, pattern, fld, sa, email) ==
    IF pattern = <<>>
    THEN Response(200, <<Result(email, "metadata", <<>>)>>, FALSE)
    ELSE IF NamesTextContent(fld, sa) THEN Response(500, <<>>, FALSE)
    ELSE IF db = "sqlite" THEN Response(500, <<>>, FALSE)
    ELSE IF \E i \in 1..Len(pattern) : pattern[i] = "NUL"
    THEN Response(500, <<>>, FALSE)
    ELSE IF ~Compiles(pattern) THEN Response(500, <<>>, TRUE)
    ELSE IF ~RowMatches(fld, pattern, email) THEN Response(200, <<>>, TRUE)
    ELSE LET mf == MatchedField(fld, pattern, email)
             text == CASE mf = "subject" -> email.subject
                       [] mf = "sender" -> email.sender
                       [] OTHER -> email.body_plain
         IN  Response(200,
                      <<Result(email, mf, GeneratePreview(text, pattern))>>,
                      TRUE)

Subjects == {<<>>, <<"A">>, <<" ", "a">>}

InitQuery ==
    /\ InitCommon
    /\ IdleAttach
    /\ IdlePolicy
    /\ IdleFetch
    /\ mailbox = [a \in Accounts |-> <<>>]
    /\ limit = 50
    /\ skip = 0
    /\ matching = 1
    /\ backend \in Backends
    /\ query \in Queries
    /\ field \in Fields
    /\ search_attachments \in BOOLEAN
    /\ stored \in [id : {1}, sender : {<<"a">>}, subject : Subjects,
                   body_plain : Texts]
    /\ smtp_configs = {}
    /\ reachable = TRUE
    /\ IdleLoops
    /\ IdleCreds

SearchRequest ==
    /\ polls = 0
    /\ ret' = [fn |-> "search_emails",
               value |-> SearchResponse(backend, query, field,
                                        search_attachments, stored)]
    /\ polls' = 1
    /\ UNCHANGED <<mainVars, attachVars, imapVars, searchVars, settings,
                   overrides, policy, part, content_type, data, decoded,
                   attachment>>

NextQuery == SearchRequest

SpecQuery == InitQuery /\ [][NextQuery]_vars

----------------------------------------------------------------------------
(* The store under the account endpoints, ingestion and message deletion   *)

\* most smtp_configs rows at a time
MaxConfigs == 2

\* values of smtp_configs.name
Names == {"a", "b"}

ConfigRow(i, n) == [id |-> i, name |-> n]

\* batches a fetch returns to _process_emails
StoreBoxes == {<<Msg("m1", 0, 0)>>, <<Msg("m1", 0, 0), Msg("m2", 1, 1)>>}

\* unique constraint on smtp_configs.name, over the rows other than the one
\* written
NameTaken(configs, i, n) == \E c \in configs : c.id # i /\ c.name = n

\* foreign key email_logs.smtp_config_id, as the database enforces it on a
\* DELETE of the referenced row: PostgreSQL rejects the statement, SQLite
\* does not check foreign keys unless PRAGMA foreign_keys is switched on,
\* which no code does
ForeignKeyViolation(db, logs, i) ==
    db = "postgresql" /\ \E l \in logs : l.acct = i

\* variant: the relationship has no delete cascade
NoCascade(atts, i) == atts

\* cascade="all, delete-orphan" of EmailLog.attachments: the attachment rows
\* left when the message with the given id is deleted through the session
CascadeDelete(atts, i) == {a \in atts : a.email_log_id # i}

\* what a call answered: its status, the row it was about, and the name it
\* was given (account endpoints) or the number of rows it removed (deletes)
Answer(f, code, i, d) ==
    [fn |-> f, value |-> [status |-> code, id |-> i, detail |-> d]]

InitStore ==
    /\ InitCommon
    /\ IdleAttach
    /\ IdlePolicy
    /\ IdleFetch
    /\ IdleQuery
    /\ IdleNet
    /\ IdleLoops
    /\ IdleCreds
    /\ mailbox = [a \in Accounts |-> <<>>]
    /\ limit = 0
    /\ skip = 0
    /\ matching = 0
    /\ backend \in Backends
    /\ smtp_configs = {}

storeFrame == <<reachable, loopPc, creds, mailbox,
                enabled, total_emails_processed, last_check, now,
                clientVars, schedVars, lifeVars, runVars, errLog, firstLogs,
                firstAtts, attachVars, imapVars, searchVars, queryVars,
                settings, overrides, policy, part, content_type, data,
                decoded, attachment>>

\* POST /smtp-configs.  The id of the new row is the next one after the
\* largest in the table, as SQLite assigns it.
CreateSmtpConfig(n) ==
    /\ \/ Cardinality(smtp_configs) < MaxConfigs
       \/ \E c \in smtp_configs : c.name = n
    /\ IF \E c \in smtp_configs : c.name = n
       THEN /\ ret' = Answer("create_smtp_config", 400, 0, n)
            /\ UNCHANGED smtp_configs
       ELSE /\ smtp_configs' =
                   smtp_configs \cup {ConfigRow(NextId(smtp_configs), n)}
            /\ ret' = Answer("create_smtp_config", 200,
                             NextId(smtp_configs), n)
    /\ polls' = 1
    /\ UNCHANGED <<email_logs, email_attachments, storeFrame>>

\* PUT /smtp-configs/{id} with the name field: setattr and commit; the
\* IntegrityError of the commit leaves the handler and is answered by
\* global_exception_handler
UpdateSmtpConfigName(i, n) ==
    /\ IF ~\E c \in smtp_configs : c.id = i
       THEN /\ ret' = Answer("update_smtp_config", 404, i, n)
            /\ UNCHANGED smtp_configs
       ELSE IF NameTaken(smtp_configs, i, n)
       THEN /\ ret' = Answer("update_smtp_config", 500, i, n)
            /\ UNCHANGED smtp_configs
       ELSE /\ smtp_configs' =
                   {IF c.id = i THEN ConfigRow(i, n) ELSE c : c \in smtp_configs}
            /\ ret' = Answer("update_smtp_config", 200, i, n)
    /\ polls' = 1
    /\ UNCHANGED <<email_logs, email_attachments, storeFrame>>

\* DELETE /smtp-configs/{id}
DeleteSmtpConfig(i) ==
    /\ IF ~\E c \in smtp_configs : c.id = i
       THEN /\ ret' = Answer("delete_smtp_config", 404, i, 0)
            /\ UNCHANGED smtp_configs
       ELSE IF ForeignKeyViolation(backend, email_logs, i)
       THEN /\ ret' = Answer("delete_smtp_config", 409, i, 0)
            /\ UNCHANGED smtp_configs
       ELSE /\ smtp_configs' = {c \in smtp_configs : c.id # i}
            /\ ret' = Answer("delete_smtp_config", 200, i, 0)
    /\ polls' = 1
    /\ UNCHANGED <<email_logs, email_attachments, storeFrame>>

\* _process_emails over a fetched batch of an existing account
StoreEmails(i, box) ==
    LET done == ProcessEmails(email_logs, email_attachments, {}, box, i)
    IN  /\ \E c \in smtp_configs : c.id = i
        /\ email_logs' = done.logs
        /\ email_attachments' = done.atts
        /\ ret' = Answer("_process_emails", 200, i, 0)
        /\ polls' = 1
        /\ UNCHANGED <<smtp_configs, storeFrame>>

\* session.delete(email_log) and commit: no handler does it, the mapping of
\* EmailLog declares what it does to the attachment rows
DeleteEmailLog(m) ==
    /\ \E l \in email_logs : l.mid = m
    /\ LET l == CHOOSE l \in email_logs : l.mid = m
       IN  /\ email_logs' = email_logs \ {l}
           /\ email_attachments' = CascadeDelete(email_attachments, l.id)
           /\ ret' = Answer("session.delete", 200, l.id,
                            Cardinality({a \in email_attachments :
                                            a.email_log_id = l.id}))
    /\ polls' = 1
    /\ UNCHANGED <<smtp_configs, storeFrame>>

\* scripts/factory_reset.py, which opens the SQLite file: DELETE FROM
\* email_attachments, DELETE FROM email_logs, one commit
FactoryReset ==
    /\ backend = "sqlite"
    /\ email_logs # {}
    /\ email_attachments' = {}
    /\ email_logs' = {}
    /\ ret' = Answer("factory_reset", 200, 0,
                     Cardinality(email_attachments))
    /\ polls' = 1
    /\ UNCHANGED <<smtp_configs, storeFrame>>

NextStore ==
    \/ \E n \in Names : CreateSmtpConfig(n)
    \/ \E i \in 1..MaxConfigs, n \in Names : UpdateSmtpConfigName(i, n)
    \/ \E i \in 1..MaxConfigs : DeleteSmtpConfig(i)
    \/ \E i \in 1..MaxConfigs, box \in StoreBoxes : StoreEmails(i, box)
    \/ \E m \in MsgIds : DeleteEmailLog(m)
    \/ FactoryReset

SpecStore == InitStore /\ [][NextStore]_vars

----------------------------------------------------------------------------
(* The bodies of a parsed message.  A body is known by its length.         *)

\* the decoded payloads of the parts of the given type from part i on, put
\* together ("body_plain += ...", "body_html += ...")
RECURSIVE Joined(_, _, _)
Joined(raw, sub, i) ==
    IF i > Len(raw.parts) THEN 0
    ELSE (IF raw.parts[i].mime = MimeType("text", sub, {})
          THEN raw.parts[i].payload ELSE 0) + Joined(raw, sub, i + 1)

\* _parse_email, "Extract body content": of a multipart message every part
\* the walk yields, of any other message the message itself
Body(raw, sub) ==
    IF raw.parts = <<>> THEN 0
    ELSE IF IsMultipart(raw) THEN Joined(raw, sub, 1)
    ELSE IF raw.parts[1].mime = MimeType("text", sub, {})
    THEN raw.parts[1].payload
    ELSE 0

\* the body_plain column of the row: body_plain=email_data["body_plain"]
StoredBodyPlain(plain, html) == plain

InitBody ==
    /\ InitCommon
    /\ IdleExt
    /\ IdlePolicy
    /\ IdleFetch
    /\ IdleSearch
    /\ mailbox = [a \in Accounts |-> <<>>]
    /\ \E raw \in RawMessage :
          /\ raw.mid = "m1"
          /\ rawbox = <<raw>>

\* _parse_email and the row _process_emails builds from its result, reduced
\* to the two body columns
ParseBodies ==
    LET plain == Body(rawbox[1], "plain")
        html == Body(rawbox[1], "html")
    IN  /\ polls = 0
        /\ ret' = [fn |-> "_parse_email",
                   value |-> [body_plain |-> StoredBodyPlain(plain, html),
                              body_html |-> html]]
        /\ polls' = 1
        /\ UNCHANGED <<mainVars, attachVars, imapVars, searchVars, settings,
                       overrides, policy, part, content_type, data, decoded,
                       attachment>>

NextBody == ParseBodies

SpecBody == InitBody /\ [][NextBody]_vars

----------------------------------------------------------------------------
(* The poll of one account, cycle after cycle, against a server that goes  *)
(* away and comes back.  The steps of a call are those of the              *)
(* specification of the IMAP client; the client object is the one the      *)
(* first cycle put into active_clients.                                    *)

Script(login, other) ==
    [login |-> login, list |-> other,
     folder |-> [f \in Folders |-> IF other = "OK" THEN "OK" ELSE "select raise"],
     fetch |-> [x \in Folders \X Uids |-> other],
     readOnly |-> FALSE]

\* the server answers a new connection and every command on it
UpScript == Script("OK", "OK")
\* the server is away: a connection attempt raises, and so does every
\* command on a connection opened before
DownScript == Script("raise", "raise")
\* the server is back and the connection opened before is gone: a new
\* connection would be answered, every command on the old one raises
StaleScript == Script("OK", "raise")

\* the answers the client gets once the server is back.  connect() is
\* called only while _connected is not set (fetch_new_emails, lines 88-90):
\* a client with the flag set goes on with the connection it had, a client
\* without it connects anew before its next command.
ScriptWhenBack(flag) == IF flag THEN StaleScript ELSE UpScript

InitRetry ==
    /\ InitCommon
    /\ IdleAttach
    /\ IdlePolicy
    /\ IdleSearch
    /\ IdleQuery
    /\ IdleCrud
    /\ IdleLoops
    /\ IdleCreds
    /\ mailbox = [a \in Accounts |-> <<>>]
    /\ reachable \in BOOLEAN
    /\ server = IF reachable THEN UpScript ELSE DownScript
    /\ imapPc = "idle"
    /\ isConnected = FALSE
    /\ commands = {}
    /\ folderIdx = 0
    /\ uidIdx = 0
    /\ folder_emails = <<>>
    /\ all_emails = <<>>
    /\ seen = {}

retryFrame == <<mailbox, storeVars, clientVars, schedVars, lifeVars, runVars,
                errLog, firstLogs, firstAtts, queryVars, smtp_configs,
                loopPc, creds, attachVars, policyVars, searchVars>>

\* _process_server of the next cycle: the client of the account is taken
\* from active_clients and fetch_new_emails is called on it
ProcessServerCycle ==
    /\ imapPc \in {"idle", "done"}
    /\ polls' = Min(polls + 1, MaxFetchCalls)
    /\ imapPc' = IF isConnected THEN "list" ELSE "connect"
    /\ commands' = {}
    /\ folderIdx' = 0
    /\ uidIdx' = 0
    /\ folder_emails' = <<>>
    /\ all_emails' = <<>>
    /\ UNCHANGED <<retryFrame, reachable, server, isConnected, seen>>

\* the server goes away; the connections to it are lost
ServerDown ==
    /\ reachable
    /\ reachable' = FALSE
    /\ server' = DownScript
    /\ UNCHANGED <<retryFrame, polls, imapPc, isConnected, commands, folderIdx,
                   uidIdx, folder_emails, all_emails, seen>>

\* the server comes back
ServerUp ==
    /\ ~reachable
    /\ reachable' = TRUE
    /\ server' = ScriptWhenBack(isConnected)
    /\ UNCHANGED <<retryFrame, polls, imapPc, isConnected, commands, folderIdx,
                   uidIdx, folder_emails, all_emails, seen>>

ClientStep ==
    ProcessServerCycle \/ Connect \/ List \/ Select \/ Search \/ Fetch

NextRetry ==
    \/ ProcessServerCycle
    \/ Connect
    \/ List
    \/ Select
    \/ Search
    \/ Fetch
    \/ ServerDown
    \/ ServerUp

SpecRetry == InitRetry /\ [][NextRetry]_vars

\* the event loop runs the scheduler and its tasks: a step of the client
\* that can be taken is taken
FairRetry == SpecRetry /\ WF_vars(ClientStep)

----------------------------------------------------------------------------
(* start_processing and stop_processing called any number of times, every  *)
(* start_processing call a task of its own, reduced to where each call     *)
(* stands: in a poll cycle, in the sleep after one, or returned            *)

\* stop_processing calls
MaxStops == 3

InitLoops ==
    /\ InitCommon
    /\ InitAux
    /\ mailbox = [a \in Accounts |-> <<>>]

loopFrame == <<mailbox, storeVars, active_clients, connected, loggedOut,
               schedPc, cycleConfigs, cycleIdx, lastCycleErr, lifeVars,
               runVars, errLog, polls, firstLogs, firstAtts, queryVars,
               smtp_configs, reachable, creds, attachVars, policyVars,
               imapVars, searchVars>>

\* "while self.processing": the test a loop makes when its sleep is over
LoopGoesOn(flag, pc) == flag

\* start_processing is called: it returns at once when the flag is set,
\* else it sets the flag and begins its first cycle
StartProcessingCall(t) ==
    /\ loopPc[t] = "none"
    /\ \A u \in LoopTasks : u < t => loopPc[u] # "none"
    /\ IF processing
       THEN /\ loopPc' = [loopPc EXCEPT ![t] = "returned"]
            /\ UNCHANGED processing
       ELSE /\ processing' = TRUE
            /\ loopPc' = [loopPc EXCEPT ![t] = "cycle"]
    /\ UNCHANGED <<loopFrame, clears>>

\* _process_all_servers returned or raised: asyncio.sleep(30) or (60)
CycleOver(t) ==
    /\ loopPc[t] = "cycle"
    /\ loopPc' = [loopPc EXCEPT ![t] = "sleep"]
    /\ UNCHANGED <<loopFrame, clears, processing>>

\* the sleep is over: the loop tests the flag
SleepOver(t) ==
    /\ loopPc[t] = "sleep"
    /\ loopPc' = [loopPc EXCEPT ![t] =
                     IF LoopGoesOn(processing, loopPc[t]) THEN "cycle"
                     ELSE "returned"]
    /\ UNCHANGED <<loopFrame, clears, processing>>

\* stop_processing: the flag is cleared, the clients of the map (none here)
\* are disconnected and the map is cleared
StopProcessingCall ==
    /\ clears < MaxStops
    /\ processing' = FALSE
    /\ clears' = clears + 1
    /\ UNCHANGED <<loopFrame, loopPc>>

NextLoops ==
    \/ \E t \in LoopTasks : StartProcessingCall(t)
    \/ \E t \in LoopTasks : CycleOver(t)
    \/ \E t \in LoopTasks : SleepOver(t)
    \/ StopProcessingCall

SpecLoops == InitLoops /\ [][NextLoops]_vars

----------------------------------------------------------------------------
(* The connection settings a poll connects with: those of the account's    *)
(* row, copied by every cycle, and those of the client object kept in      *)
(* active_clients.  The host, which is part of the client key, stays.      *)

\* username, password, port, imap_use_ssl and imap_use_tls of an account,
\* reduced to two of them
ConnSettings == [password : {"p1", "p2"}, port : {993, 143}]

InitCreds ==
    /\ InitCommon
    /\ IdleAttach
    /\ IdlePolicy
    /\ IdleFetch
    /\ IdleSearch
    /\ IdleQuery
    /\ IdleCrud
    /\ IdleNet
    /\ IdleLoops
    /\ mailbox = [a \in Accounts |-> <<>>]
    /\ \E s \in ConnSettings : creds = [row |-> s, client |-> Unset]

credsFrame == <<mailbox, storeVars, clientVars, schedVars, lifeVars, runVars,
                errLog, firstLogs, firstAtts, queryVars, smtp_configs,
                reachable, loopPc, attachVars, searchVars, server, imapPc,
                commands, folderIdx, uidIdx, folder_emails, all_emails, seen,
                settings, overrides, policy, part, content_type, data,
                decoded, attachment>>

\* PUT /smtp-configs/{id} with connection settings
UpdateConnSettings(s) ==
    /\ s # creds.row
    /\ creds' = [creds EXCEPT !.row = s]
    /\ UNCHANGED <<credsFrame, isConnected, polls, ret>>

\* "client = self.active_clients[client_key]": self.config of the client
\* that connects, kept being the config the client of the key was made with
\* and copy the config_copy of the running cycle
ConfigOfClient(kept, copy) == kept

\* a cycle polls the account: the row is copied, the client of the key is
\* made from the copy if the map has none, and fetch_new_emails runs on the
\* client of the map.  While _connected is unset it calls connect(), which
\* logs in with self.config of the client; the server accepts or refuses.
PollAccount ==
    LET copy == creds.row
        kept == IF creds.client = Unset THEN copy ELSE Val(creds.client)
    IN  /\ creds' = [creds EXCEPT !.client = Some(kept)]
        /\ IF isConnected
           THEN /\ ret' = [fn |-> "fetch_new_emails",
                           value |-> [used |-> kept, row |-> copy]]
                /\ UNCHANGED isConnected
           ELSE /\ ret' = [fn |-> "connect",
                           value |-> [used |-> ConfigOfClient(kept, copy),
                                      row |-> copy]]
                /\ \E ok \in BOOLEAN : isConnected' = ok
        /\ polls' = 1
        /\ UNCHANGED credsFrame

\* stop_processing and a later start: the clients are disconnected and the
\* map is cleared
ClearClients ==
    /\ creds.client # Unset
    /\ creds' = [creds EXCEPT !.client = Unset]
    /\ isConnected' = FALSE
    /\ UNCHANGED <<credsFrame, polls, ret>>

NextCreds ==
    \/ \E s \in ConnSettings : UpdateConnSettings(s)
    \/ PollAccount
    \/ ClearClients

SpecCreds == InitCreds /\ [][NextCreds]_vars

----------------------------------------------------------------------------
(* The Message-ID of a fetched message and the rows of a poll that fetched *)
(* two messages of one account                                             *)

\* values of the Message-ID header
HeaderIds == {<<"header", 1, 0>>, <<"header", 2, 0>>}

\* a fetched message: its folder, the number SEARCH ALL gave for it in that
\* folder (msg_id) and its Message-ID header, if it has one
Fetched == [folder : Folders, uid : Uids,
            header : {Unset} \cup {Some(h) : h \in HeaderIds}]

\* f"uid_{uid}_{self.config.id}"
Synthesized(msg, a) == <<"uid", msg.uid, a>>

\* msg.get("Message-ID", f"uid_{uid}_{self.config.id}")
MessageId(msg, a) ==
    IF msg.header # Unset THEN Val(msg.header) ELSE Synthesized(msg, a)

InitSynth ==
    /\ InitCommon
    /\ IdleExt
    /\ IdleAttach
    /\ IdlePolicy
    /\ IdleSearch
    /\ mailbox = [a \in Accounts |-> <<>>]
    /\ server = None
    /\ imapPc = "done"
    /\ isConnected = TRUE
    /\ commands = {}
    /\ folderIdx = 0
    /\ uidIdx = 0
    /\ folder_emails = <<>>
    /\ seen = {}
    /\ \E m, n \in Fetched :
          /\ <<m.folder, m.uid>> # <<n.folder, n.uid>>
          /\ m.folder <= n.folder
          /\ all_emails = <<m, n>>

\* _process_server from the return of fetch_new_emails on: the messages are
\* stored under the Message-IDs _parse_email gave them
StoreFetched ==
    LET a == IngestAccount
        emails == [i \in 1..Len(all_emails) |->
                      Msg(MessageId(all_emails[i], a), 0, 0)]
        done == ProcessEmails(email_logs, email_attachments, errLog, emails, a)
    IN  /\ polls = 0
        /\ email_logs' = done.logs
        /\ email_attachments' = done.atts
        /\ errLog' = done.errs
        /\ polls' = 1
        /\ UNCHANGED <<mailbox, enabled, total_emails_processed, last_check,
                       now, clientVars, schedVars, lifeVars, runVars,
                       firstLogs, firstAtts, extVars, attachVars, policyVars,
                       imapVars, searchVars>>

NextSynth == StoreFetched

SpecSynth == InitSynth /\ [][NextSynth]_vars

----------------------------------------------------------------------------
(* Properties *)

\* C1: idempotent ingestion.  After the first poll of a mailbox, every later
\* poll of the unchanged mailbox leaves email_logs and email_attachments
\* exactly as the first poll left them, and no two rows share a Message-ID:
\* a message whose Message-ID is stored is skipped and changes nothing.
C1_IdempotentIngestion ==
    /\ polls >= 1 => /\ email_logs = firstLogs
                     /\ email_attachments = firstAtts
    /\ \A x, y \in email_logs : x.mid = y.mid => x = y

\* a second poll has run over a mailbox whose first poll stored a message
\* with an attachment, and the second poll skipped stored messages
C1_Witness ==
    /\ polls >= 2
    /\ email_attachments # {}
    /\ \E x \in email_logs : x.mid \in errLog

\* C2: atomic message ingestion.  In every state of the store, also after a
\* rolled-back ingestion and after the cancellation of a poller, every
\* email_logs row has exactly the attachment rows its transaction produced
\* (as many as its attachment_count, which is what extract_attachments built
\* for the message), and every attachment row belongs to a committed row.
C2_AtomicIngestion ==
    /\ \A row \in email_logs :
          /\ Cardinality({x \in email_attachments : x.email_log_id = row.id})
                = row.attachment_count
          /\ \A a \in Accounts : \A i \in 1..Len(mailbox[a]) :
                mailbox[a][i].mid = row.mid =>
                   row.attachment_count =
                      IF WantsAttachments(mailbox[a][i])
                      THEN mailbox[a][i].parts ELSE 0
    /\ \A x \in email_attachments : \E row \in email_logs : row.id = x.email_log_id

\* a poller was cancelled, a transaction was rolled back, and a message is
\* stored together with its attachment
C2_Witness ==
    /\ \E r \in Runs : rOutcome[r] = "cancelled" /\ rClient[r] # None
    /\ errLog # {}
    /\ \E row \in email_logs : row.attachment_count > 0

\* C3: incremental progress in batches of at most 10.  A poller never holds
\* more than 10 fetched messages that it has not yet ingested and counted:
\* the work of every full batch is committed before the fetch goes on.
C3_BatchesOfAtMostTen ==
    \A r \in Runs : Running(r) => Len(rEmails[r]) <= 10

\* C4: progress monotonicity.  No step of the system (poll cycle, manual
\* trigger, failed or cancelled run, account update) decreases an account's
\* total_emails_processed or last_check.
C4_ProgressMonotone ==
    [][\A a \in Accounts :
          /\ total_emails_processed'[a] >= total_emails_processed[a]
          /\ last_check'[a] >= last_check[a]]_vars

\* a scheduled poll and a manual trigger of one account overlap, after the
\* account's counter has been increased
C4_Witness ==
    \E r \in SchedRuns, q \in ManualRuns :
        /\ Fetching(r) /\ Fetching(q)
        /\ rAcct[r] = rAcct[q]
        /\ total_emails_processed[rAcct[r]] > 0
        /\ last_check[rAcct[r]] > 0

\* C5: every poller run that has started ends with last_check written, also
\* when it raised or was cancelled.
C5_LastCheckAlwaysUpdated ==
    \A r \in Runs : (rPc[r] = "finished" /\ rClient[r] # None) => rChecked[r]

\* C6: cycle errors are not fatal.  While the run flag is set the scheduler
\* task is awaiting its pollers or sleeping, never ended; it sleeps 60 s
\* exactly after a cycle that raised and 30 s otherwise, from the sleep the
\* next cycle can start, and a poller that raised leaves the cycle running.
C6_CycleErrorsNotFatal ==
    /\ (processing /\ schedPc # "off") => schedPc \in {"gather", "sleep30", "sleep60"}
    /\ schedPc = "sleep60" => lastCycleErr
    /\ schedPc = "sleep30" => ~lastCycleErr
    /\ (lastCycleErr /\ processing) => schedPc = "sleep60"
    /\ schedPc \in {"sleep30", "sleep60"} => ENABLED Wake
    /\ \A r \in SchedRuns :
          (rOutcome[r] = "error" /\ lifePc # "down") => schedPc = "gather"

\* the scheduler sleeps the back-off after a cycle whose query raised, with
\* the run flag still set
C6_Witness ==
    /\ processing
    /\ lastCycleErr
    /\ schedPc = "sleep60"

\* a poller of the cycle raised and the scheduler goes on gathering
C6_WitnessPollerFault ==
    \E r \in SchedRuns : rOutcome[r] = "error" /\ schedPc = "gather" /\ processing

\* C7: fan-out.  Whenever the scheduler waits for pollers, a task has been
\* created for every account of the cycle.
C7_FanOut ==
    schedPc = "gather" => cycleIdx = Len(cycleConfigs)

\* C8: stop.  Once stop_processing has returned the run flag is false, no
\* poller is running, no client that was in the map is still connected, and
\* the map is empty and stays empty.
C8_StopIsComplete ==
    lifePc \in {"stopped", "down"} =>
        /\ ~processing
        /\ \A r \in Runs : rPc[r] \notin {"connecting", "fetching"}
        /\ stopSnapshot \cap connected = {}
        /\ active_clients = <<>>

\* C9: one client per key, never used by two poller runs at once.
C9_ClientNeverShared ==
    /\ \A i, j \in 1..Len(active_clients) :
          KeyOf(active_clients[i]) = KeyOf(active_clients[j]) => i = j
    /\ \A r, q \in Runs :
          (Fetching(r) /\ Fetching(q) /\ rClient[r] = rClient[q]) => r = q

C11_AttachmentRows ==
    polls >= 1 =>
        \A i \in 1..Len(rawbox) :
            LET raw == rawbox[i]
                want == Cardinality({j \in 1..Len(raw.parts) :
                          /\ raw.parts[j].mime.main # "multipart"
                          /\ raw.parts[j].payload > 0
                          /\ \/ raw.parts[j].filename
                             \/ raw.parts[j].disposition = "attachment"
                             \/ raw.parts[j].mime.main \in
                                   {"image", "audio", "video", "application"}})
                rows == {row \in email_logs : row.mid = raw.mid}
            IN  /\ Cardinality(rows) = 1
                /\ \A row \in rows :
                      /\ row.attachment_count = want
                      /\ Cardinality({x \in email_attachments :
                                         x.email_log_id = row.id}) = want

C15_ShouldExtractSelectsFamily ==
    (polls >= 1 /\ ret.fn = "should_extract_text") =>
        IF content_type = {} THEN ret.value = FALSE
        ELSE \A mt \in content_type :
            ret.value =
               IF mt.main = "application" /\ mt.sub = "pdf"
               THEN policy.extract_pdf_text
               ELSE IF mt.main = "application" /\ mt.sub \in
                  {"msword",
                   "vnd.openxmlformats-officedocument.wordprocessingml.document"}
               THEN policy.extract_docx_text
               ELSE IF mt.main = "image" THEN policy.extract_image_text
               ELSE IF mt.main = "text" THEN policy.extract_other_text
               ELSE IF mt.main = "application" /\ mt.sub \in
                          {"json", "xml", "csv", "rtf"}
               THEN policy.extract_other_text
               ELSE FALSE

\* asked about a MIME type written with upper-case letters whose family is
\* the only one enabled: the answer is the flag, true
C15_Witness ==
    /\ polls >= 1
    /\ ret.fn = "should_extract_text"
    /\ \E mt \in content_type :
          /\ mt.main = "application" /\ mt.sub = "msword"
          /\ mt.upper = {"main", "sub"}
    /\ policy.extract_docx_text
    /\ ~policy.extract_pdf_text /\ ~policy.extract_other_text
    /\ ret.value = TRUE

\* C16: extract returns none and invokes no decoder when the policy disables
\* the family of the MIME type or the MIME type has no family, whatever the
\* data.
C16_DisabledFamilyNotDecoded ==
    (polls >= 1 /\ ret.fn = "extract") =>
        LET enabledFamily ==
              \E mt \in content_type :
                 \/ mt.main = "application" /\ mt.sub = "pdf"
                       /\ policy.extract_pdf_text
                 \/ mt.main = "application" /\ mt.sub \in
                       {"msword",
                        "vnd.openxmlformats-officedocument.wordprocessingml.document"}
                       /\ policy.extract_docx_text
                 \/ mt.main = "image" /\ policy.extract_image_text
                 \/ mt.main = "text" /\ policy.extract_other_text
                 \/ mt.main = "application" /\ mt.sub \in
                       {"json", "xml", "csv", "rtf"}
                       /\ policy.extract_other_text
        IN  ~enabledFamily => (ret.value = None /\ decoded = {})

\* extract was given non-empty data of type text/html under a policy that
\* enables every family but the other-textual one, and returned none
C16_Witness ==
    /\ polls >= 1
    /\ ret.fn = "extract"
    /\ data > 0
    /\ \E mt \in content_type : mt.main = "text" /\ mt.sub = "html"
    /\ ~policy.extract_other_text
    /\ policy.extract_pdf_text /\ policy.extract_docx_text
    /\ policy.extract_image_text
    /\ ret.value = None
    /\ decoded = {}

\* C12: when a part of non-empty payload has a MIME family the policy
\* enables and the extractor returned text for it, the Attachment record the
\* processor returns carries that text in text_content, with the content
\* type and size of the part.
C12_TextContentCarriesText ==
    (/\ polls >= 1
     /\ ret.fn = "extract"
     /\ part.payload > 0
     /\ ret.value = "text") =>
        \E att \in attachment :
            /\ att.content_type = part.mime
            /\ att.size = part.payload
            /\ "text_content" \in DOMAIN att
            /\ att.text_content = ret.value

\* C13: during ingestion text of a family is extracted only if the global
\* flag of the family is true and the account's override is not false.
C13_PolicyMergesAccountOverride ==
    (polls >= 1 /\ ret.fn = "extract" /\ decoded # {}) =>
        LET flag(glob, acc) ==
              IF part.mime.main = "application" /\ part.mime.sub = "pdf"
              THEN <<glob.extract_pdf_text, acc.extract_pdf_text_override>>
              ELSE IF part.mime.main = "image"
              THEN <<glob.extract_image_text, acc.extract_image_text_override>>
              ELSE <<glob.extract_other_text, acc.extract_other_text_override>>
        IN  \A acc \in overrides :
                /\ flag(settings, acc)[1]
                /\ flag(settings, acc)[2] # {FALSE}

\* C17: the client is connected only after a login that was answered OK;
\* when the login is answered otherwise or connecting raises, the client
\* stays disconnected and fetch_new_emails returns no messages and has
\* issued none of LIST, SELECT, SEARCH, FETCH.
C17_ConnectedOnlyAfterLoginOk ==
    /\ isConnected => server.login = "OK"
    /\ imapPc = "connect" => ~isConnected
    /\ (imapPc = "done" /\ server.login # "OK") =>
          /\ ~isConnected
          /\ all_emails = <<>>
          /\ commands \cap {"LIST", "SELECT", "SEARCH ALL", "FETCH"} = {}

\* the second call on a client whose login is refused has returned
C17_Witness ==
    /\ imapPc = "done"
    /\ polls = MaxFetchCalls
    /\ server.login = "NO"
    /\ commands = {"LOGIN"}
    /\ ~isConnected
    /\ all_emails = <<>>

\* C18: polling does not mutate the mailbox: the client issues only the
\* login, LIST, SELECT, SEARCH ALL, FETCH and LOGOUT, and no message of the
\* server becomes seen.
C18_MailboxNotMutated ==
    /\ commands \subseteq {"LOGIN", "STARTTLS", "LIST", "SELECT", "SEARCH ALL",
                           "FETCH", "LOGOUT"}
    /\ seen = {}

\* C19: fetch error containment.  A call that got its folder list returns
\* exactly the messages whose folder was selected and searched and whose
\* fetch succeeded, in order: a failed message costs only itself and a
\* failed folder only its own messages.
C19_FetchErrorsContained ==
    (imapPc = "done" /\ server.login = "OK" /\ server.list = "OK") =>
        LET good == {m \in Folders \X Uids :
                        /\ server.folder[m[1]] = "OK"
                        /\ server.fetch[m] = "OK"}
        IN  /\ Len(all_emails) = Cardinality(good)
            /\ \A i \in 1..Len(all_emails) : all_emails[i] \in good
            /\ \A i, j \in 1..Len(all_emails) :
                  i < j => \/ all_emails[i][1] < all_emails[j][1]
                           \/ /\ all_emails[i][1] = all_emails[j][1]
                              /\ all_emails[i][2] < all_emails[j][2]

\* a call has returned the one message after a fetch that raised in the
\* first folder and the one after a refused fetch in the last folder
C19_Witness ==
    /\ imapPc = "done"
    /\ NumFolders > 1
    /\ server.fetch[<<1, 1>>] = "raise"
    /\ server.fetch[<<NumFolders, 1>>] = "NO"
    /\ all_emails = <<<<1, 2>>, <<NumFolders, 2>>>>

\* C20: hardcap.  Whatever limit (zero, negative, above 100) and skip the
\* caller gives, a search response holds at most 100 results.
C20_Hardcap ==
    (polls >= 1 /\ ret.fn = "search_emails") => ret.value <= 100

\* C21: a search whose non-empty query is longer than 500 characters, holds
\* a NUL byte or does not compile is answered with a 4xx status before any
\* row is matched.
C21_InvalidQueryRejected ==
    LET invalid ==
            /\ query # <<>>
            /\ \/ Len(query) > MaxPatternLength
               \/ \E i \in 1..Len(query) : query[i] = "NUL"
               \/ ~Compiles(query)
    IN  (polls = 1 /\ invalid) =>
            /\ ret.value.status \in 400..499
            /\ ~ret.value.filtered

\* C22: every result whose matched_field is not "metadata" has a preview in
\* which the query matches, case-insensitively.
C22_PreviewTruthful ==
    polls = 1 =>
        \A i \in 1..Len(ret.value.results) :
            ret.value.results[i].matched_field # "metadata" =>
                ReSearch(query, ret.value.results[i].preview) # 0

\* C23: deleting an account to which a message refers is answered 409 and
\* leaves accounts, messages and attachments as they were; deleting an
\* account to which no message refers removes that account and nothing else.
C23_DeleteGuarded ==
    [][(ret'.fn = "delete_smtp_config" /\ ret'.value.status # 404) =>
          IF \E l \in email_logs : l.acct = ret'.value.id
          THEN /\ ret'.value.status = 409
               /\ UNCHANGED <<smtp_configs, email_logs, email_attachments>>
          ELSE /\ ret'.value.status = 200
               /\ smtp_configs' =
                      {c \in smtp_configs : c.id # ret'.value.id}
               /\ UNCHANGED <<email_logs, email_attachments>>]_vars

C26_NamesStayUnique ==
    /\ [](\A c, d \in smtp_configs : c.name = d.name => c = d)
    /\ [][(/\ ret'.fn \in {"create_smtp_config", "update_smtp_config"}
           /\ \E c \in smtp_configs :
                 c.name = ret'.value.detail /\ c.id # ret'.value.id) =>
              /\ ret'.value.status \in 400..499
              /\ UNCHANGED <<smtp_configs, email_logs, email_attachments>>]_vars

\* C25: a message with an HTML body and no plain-text body is stored with a
\* non-empty body_plain; body_plain is empty only when both bodies are.
C25_BodyPlainDerived ==
    polls = 1 =>
        (ret.value.body_plain = 0 =>
            /\ Body(rawbox[1], "plain") = 0
            /\ Body(rawbox[1], "html") = 0)

\* C27: if the server stays reachable from some time on, then, whatever
\* failed before, cycles keep coming whose poll fetches every message of the
\* account.
C27_RetryReconnects ==
    <>[]reachable =>
        []<>(/\ imapPc = "done"
             /\ Len(all_emails) = NumFolders * UidsPerFolder)

\* C28: at most one start_processing call is in a poll cycle at any time.
C28_SingleLoop ==
    Cardinality({t \in LoopTasks : loopPc[t] = "cycle"}) <= 1

\* C29: a poll that connects logs in with the connection settings the
\* account's row holds at that cycle.
C29_ConnectsWithStoredSettings ==
    (polls = 1 /\ ret.fn = "connect") => ret.value.used = ret.value.row

\* C30: two distinct messages of one account that both lack a Message-ID
\* header are both stored, whatever their folders.
C30_SynthesizedIdsDistinct ==
    (/\ polls = 1
     /\ \A i \in 1..Len(all_emails) : all_emails[i].header = Unset) =>
        Cardinality(email_logs) = Len(all_emails)

====
